---------------------------- MODULE Spec2Model ----------------------------
(***************************************************************************)
(* PowerpointTextExtractor: the reading-order resolver                     *)
(* (powerpoint/accessibility_extractor_v2.py), the paragraph text          *)
(* processor (powerpoint/text_processor.py) and the conversion entry point *)
(* (powerpoint/powerpoint_processor.py, powerpoint/metadata_extractor.py). *)
(*                                                                         *)
(* A Python str is a sequence of one-character strings, so that strip(),   *)
(* lower(), the `in` operator and the regular expressions are computed.    *)
(* A call that can raise returns a record [raised, value].                 *)
(***************************************************************************)
EXTENDS Integers, Sequences, FiniteSets, TLC

VARIABLES
    accessibility_order,     \* AccessibilityOrderExtractorV2.accessibility_order
    last_extraction_method,  \* AccessibilityOrderExtractorV2.last_extraction_method
    shape_classifications,   \* AccessibilityOrderExtractorV2.shape_classifications
    deck,                    \* the slides handed to the resolver
    call,                    \* the last get_slide_reading_order call and its outcome
    text_frame,              \* the text frame (shape) handed to the TextProcessor
    extracted,               \* the last TextProcessor call and what it returned
    hash_order,              \* the interpreter's set iteration order (hash seed)
    document,                \* the file handed to the PowerPointProcessor
    conversion,              \* the last convert_pptx_to_markdown_enhanced call
    previous,                \* the conversion before it
    processor,               \* the PowerPointProcessor instance in use
    data,                    \* the structured record handed to the MarkdownConverter
    markdown                 \* the last MarkdownConverter call and what it returned

orderVars   == <<accessibility_order, last_extraction_method, shape_classifications, deck, call>>
textVars    == <<text_frame, extracted>>
convertVars == <<hash_order, document, conversion, previous, processor>>
renderVars  == <<data, markdown>>
vars        == <<orderVars, textVars, convertVars, renderVars>>

-----------------------------------------------------------------------------
(* Bounds of the model.                                                    *)

MaxShapes == 2      \* top-level shapes on a slide

-----------------------------------------------------------------------------
(* Python str operations.                                                  *)

UpperCase == <<"A","B","C","D","E","F","G","H","I","J","K","L","M",
               "N","O","P","Q","R","S","T","U","V","W","X","Y","Z">>
LowerCase == <<"a","b","c","d","e","f","g","h","i","j","k","l","m",
               "n","o","p","q","r","s","t","u","v","w","x","y","z">>

\* str.isspace() characters (also the regular expression class \s)
Whitespace == {" ", "\t", "\n"}

LowerChar(c) ==
    IF \E i \in 1..Len(UpperCase) : UpperCase[i] = c
    THEN LowerCase[CHOOSE i \in 1..Len(UpperCase) : UpperCase[i] = c]
    ELSE c

\* str.lower()
Lower(s) == [i \in 1..Len(s) |-> LowerChar(s[i])]

\* needle in s
Contains(s, needle) ==
    \E i \in 0..(Len(s) - Len(needle)) : SubSeq(s, i + 1, i + Len(needle)) = needle

\* s.startswith(prefix)
StartsWith(s, prefix) ==
    Len(prefix) <= Len(s) /\ SubSeq(s, 1, Len(prefix)) = prefix

\* str.lstrip()
LStrip(s) ==
    IF \A i \in 1..Len(s) : s[i] \in Whitespace THEN <<>>
    ELSE SubSeq(s, CHOOSE i \in 1..Len(s) :
                       /\ s[i] \notin Whitespace
                       /\ \A j \in 1..(i - 1) : s[j] \in Whitespace, Len(s))

\* str.rstrip()
RStrip(s) ==
    IF \A i \in 1..Len(s) : s[i] \in Whitespace THEN <<>>
    ELSE SubSeq(s, 1, CHOOSE i \in 1..Len(s) :
                          /\ s[i] \notin Whitespace
                          /\ \A j \in (i + 1)..Len(s) : s[j] \in Whitespace)

\* str.strip()
Strip(s) == LStrip(RStrip(s))

\* the outcome of a call: a returned value, or an exception
Ok(v) == [raised |-> FALSE, value |-> v]
Raise == [raised |-> TRUE, value |-> <<>>]


-----------------------------------------------------------------------------
(* The shapes a slide can hold.  A shape is named by its object identity   *)
(* (Python's id(shape)); Shape[i] gives what the attributes of that object *)
(* answer: `attrs` are the attributes the object has (hasattr), `raises`   *)
(* the attributes whose read raises an exception other than AttributeError,*)
(* `tag` the local name of its markup element, `xml_id` the id of the      *)
(* first cNvPr element under it ("none" when there is none), `shapes` the  *)
(* children of a group.                                                    *)

S_title        == <<"t","i","t","l","e">>
S_subtitle     == <<"s","u","b","t","i","t","l","e">>
S_sub_title    == <<"s","u","b","-","t","i","t","l","e">>
S_slide_number == <<"s","l","i","d","e"," ","n","u","m","b","e","r">>
S_heading      == <<"h","e","a","d","i","n","g">>
S_header       == <<"h","e","a","d","e","r">>
S_subheading   == <<"s","u","b","h","e","a","d","i","n","g">>

AllAttrs == {"name", "text", "has_table", "has_chart"}

Shape ==
    <<  \* 1: the title placeholder
        [shape_type |-> "PLACEHOLDER", tag |-> "sp", xml_id |-> "2",
         name |-> <<"T","i","t","l","e"," ","1">>, text |-> <<"P","l","a","n">>,
         has_table |-> FALSE, has_chart |-> FALSE, shapes |-> <<>>,
         attrs |-> AllAttrs, raises |-> {}],
        \* 2: the subtitle placeholder
        [shape_type |-> "PLACEHOLDER", tag |-> "sp", xml_id |-> "3",
         name |-> <<"S","u","b","t","i","t","l","e"," ","2">>, text |-> <<"G","o","a","l","s">>,
         has_table |-> FALSE, has_chart |-> FALSE, shapes |-> <<>>,
         attrs |-> AllAttrs, raises |-> {}],
        \* 3: the slide number placeholder
        [shape_type |-> "PLACEHOLDER", tag |-> "sp", xml_id |-> "4",
         name |-> <<"S","l","i","d","e"," ","N","u","m","b","e","r"," ","3">>, text |-> <<"7">>,
         has_table |-> FALSE, has_chart |-> FALSE, shapes |-> <<>>,
         attrs |-> AllAttrs, raises |-> {}],
        \* 4: a text box whose text reads like a heading
        [shape_type |-> "TEXT_BOX", tag |-> "sp", xml_id |-> "5",
         name |-> <<"C","o","n","t","e","n","t"," ","4">>,
         text |-> <<"A"," ","s","h","o","r","t"," ","h","e","a","d","i","n","g">>,
         has_table |-> FALSE, has_chart |-> FALSE, shapes |-> <<>>,
         attrs |-> AllAttrs, raises |-> {}],
        \* 5: a picture (no text attribute) whose markup id repeats the slide number's
        [shape_type |-> "PICTURE", tag |-> "pic", xml_id |-> "4",
         name |-> <<"P","i","c","t","u","r","e"," ","5">>, text |-> <<>>,
         has_table |-> FALSE, has_chart |-> FALSE, shapes |-> <<>>,
         attrs |-> {"name", "has_table", "has_chart"}, raises |-> {}],
        \* 6: a graphic frame holding a table
        [shape_type |-> "TABLE", tag |-> "graphicFrame", xml_id |-> "7",
         name |-> <<"T","a","b","l","e"," ","6">>, text |-> <<>>,
         has_table |-> TRUE, has_chart |-> FALSE, shapes |-> <<>>,
         attrs |-> {"name", "has_table", "has_chart"}, raises |-> {}],
        \* 7: an empty auto shape with no name attribute and no markup id
        [shape_type |-> "AUTO_SHAPE", tag |-> "sp", xml_id |-> "none",
         name |-> <<>>, text |-> <<" ">>,
         has_table |-> FALSE, has_chart |-> FALSE, shapes |-> <<>>,
         attrs |-> {"text", "has_table", "has_chart"}, raises |-> {}],
        \* 8: a group holding a text box and a nested group
        [shape_type |-> "GROUP", tag |-> "grpSp", xml_id |-> "9",
         name |-> <<"G","r","o","u","p"," ","8">>, text |-> <<>>,
         has_table |-> FALSE, has_chart |-> FALSE, shapes |-> <<9, 10>>,
         attrs |-> {"name", "has_table", "has_chart"}, raises |-> {}],
        \* 9: a text box inside group 8
        [shape_type |-> "TEXT_BOX", tag |-> "sp", xml_id |-> "10",
         name |-> <<"T","e","x","t","B","o","x"," ","9">>, text |-> <<"n","o","t","e">>,
         has_table |-> FALSE, has_chart |-> FALSE, shapes |-> <<>>,
         attrs |-> AllAttrs, raises |-> {}],
        \* 10: the group nested in group 8; it holds shape 4 and, again, shape 9
        [shape_type |-> "GROUP", tag |-> "grpSp", xml_id |-> "11",
         name |-> <<"G","r","o","u","p"," ","1","0">>, text |-> <<>>,
         has_table |-> FALSE, has_chart |-> FALSE, shapes |-> <<4, 9>>,
         attrs |-> {"name", "has_table", "has_chart"}, raises |-> {}],
        \* 11: a graphic frame holding a chart, whose shape_type raises
        [shape_type |-> "CHART", tag |-> "graphicFrame", xml_id |-> "12",
         name |-> <<"C","h","a","r","t"," ","1","1">>, text |-> <<>>,
         has_table |-> FALSE, has_chart |-> TRUE, shapes |-> <<>>,
         attrs |-> {"name", "has_table", "has_chart"}, raises |-> {"shape_type"}],
        \* 12: a frame whose text and has_chart reads raise
        [shape_type |-> "AUTO_SHAPE", tag |-> "graphicFrame", xml_id |-> "13",
         name |-> <<"F","r","a","m","e"," ","1","2">>, text |-> <<>>,
         has_table |-> FALSE, has_chart |-> FALSE, shapes |-> <<>>,
         attrs |-> AllAttrs, raises |-> {"text", "has_chart"}],
        \* 13: a slide number placeholder of a subtitle layout
        [shape_type |-> "PLACEHOLDER", tag |-> "sp", xml_id |-> "14",
         name |-> <<"S","u","b","t","i","t","l","e"," ","S","l","i","d","e"," ",
                    "N","u","m","b","e","r"," ","1","3">>,
         text |-> <<"9">>,
         has_table |-> FALSE, has_chart |-> FALSE, shapes |-> <<>>,
         attrs |-> AllAttrs, raises |-> {}]
    >>

\* the shapes that occur in a slide's own shape collection
TopLevel == {1, 2, 3, 4, 5, 6, 7, 8, 11, 12, 13}

RoleNames == {"title", "subtitle", "slide_number", "content", "other"}


-----------------------------------------------------------------------------
(* AccessibilityOrderExtractorV2 (accessibility_extractor_v2.py).          *)

RecognisedTags == {"sp", "grpSp", "pic", "cxnSp", "graphicFrame"}

\* the fallback classifier's text thresholds
TitleTextLimit   == 100
ContentTextFloor == 10

\* _deduplicate_shapes_by_object_id: the loop, with the ids seen so far
RECURSIVE DeduplicateLoop(_, _)
DeduplicateLoop(shapes, seen_ids) ==
    IF shapes = <<>> THEN <<>>
    ELSE IF Head(shapes) \in seen_ids
         THEN DeduplicateLoop(Tail(shapes), seen_ids)
         ELSE <<Head(shapes)>> \o DeduplicateLoop(Tail(shapes), seen_ids \cup {Head(shapes)})

_deduplicate_shapes_by_object_id(shapes) == DeduplicateLoop(shapes, {})

\* an expansion of one level: a group gives way to its children as they are
RECURSIVE ExpandOneLevel(_)
ExpandOneLevel(shapes) ==
    IF shapes = <<>> THEN Ok(<<>>)
    ELSE IF "shape_type" \in Shape[Head(shapes)].raises THEN Raise
    ELSE IF ExpandOneLevel(Tail(shapes)).raised THEN Raise
    ELSE Ok((IF Shape[Head(shapes)].shape_type = "GROUP" THEN Shape[Head(shapes)].shapes
             ELSE <<Head(shapes)>>) \o ExpandOneLevel(Tail(shapes)).value)

\* _expand_all_groups_recursively: reading shape_type may raise
RECURSIVE _expand_all_groups_recursively(_)
_expand_all_groups_recursively(shapes) ==
    IF shapes = <<>> THEN Ok(<<>>)
    ELSE LET shape == Head(shapes) IN
         IF "shape_type" \in Shape[shape].raises THEN Raise
         ELSE LET first == IF Shape[shape].shape_type = "GROUP"
                           THEN _expand_all_groups_recursively(Shape[shape].shapes)
                           ELSE Ok(<<shape>>)
                  rest  == _expand_all_groups_recursively(Tail(shapes))
              IN  IF first.raised \/ rest.raised THEN Raise
                  ELSE Ok(first.value \o rest.value)

\* get_xml_id of a shape's markup element
get_xml_id(elem) == Shape[elem].xml_id

\* id_to_shape_map[xml_id]: a later shape of slide.shapes overwrites an earlier one
id_to_shape_map(slide, xml_id) ==
    slide.shapes[CHOOSE i \in 1..Len(slide.shapes) :
                     /\ get_xml_id(slide.shapes[i]) = xml_id
                     /\ \A j \in (i + 1)..Len(slide.shapes) :
                            get_xml_id(slide.shapes[j]) # xml_id]

\* lines 175-200: the shape each recognised markup element resolves to, in
\* markup order; an element without id resolves to none
ordered_shapes(slide) ==
    LET shape_elements == SelectSeq(slide.shapes,
                              LAMBDA e : Shape[e].tag \in RecognisedTags)
        resolved       == SelectSeq(shape_elements,
                              LAMBDA e : get_xml_id(e) # "none")
    IN  [i \in 1..Len(resolved) |-> id_to_shape_map(slide, get_xml_id(resolved[i]))]

\* _get_xml_document_order_deduplicated: the shapes in markup order; the native
\* collection when the markup cannot be read or holds no shape tree
_get_xml_document_order_deduplicated(slide) ==
    IF slide.markup = "raises"
    THEN _deduplicate_shapes_by_object_id(slide.shapes)
    ELSE IF slide.markup = "no_sptree"
    THEN _deduplicate_shapes_by_object_id(slide.shapes)
    ELSE _deduplicate_shapes_by_object_id(ordered_shapes(slide))

\* lines 67-73 of _get_semantic_accessibility_order: groups replaced by their leaves
RECURSIVE ExpandOrdered(_)
ExpandOrdered(xml_ordered_shapes) ==
    IF xml_ordered_shapes = <<>> THEN Ok(<<>>)
    ELSE LET shape == Head(xml_ordered_shapes) IN
         IF "shape_type" \in Shape[shape].raises THEN Raise
         ELSE LET first == IF Shape[shape].shape_type = "GROUP"
                           THEN _expand_all_groups_recursively(<<shape>>)
                           ELSE Ok(<<shape>>)
                  rest  == ExpandOrdered(Tail(xml_ordered_shapes))
              IN  IF first.raised \/ rest.raised THEN Raise
                  ELSE Ok(first.value \o rest.value)

\* lines 83-102: the role the bucketing loop gives a shape, or "raise"
BucketRole(shape) ==
    LET sh           == Shape[shape]
        shape_name   == IF "name" \in sh.attrs THEN sh.name ELSE <<>>
        text_preview == IF "text" \in sh.raises \/ "text" \notin sh.attrs \/ sh.text = <<>>
                        THEN <<>>
                        ELSE Strip(sh.text)
    IN  IF "name" \in sh.raises THEN "raise"
        ELSE IF Contains(Lower(shape_name), S_title) /\ ~Contains(Lower(shape_name), S_subtitle)
        THEN "title"
        ELSE IF Contains(Lower(shape_name), S_slide_number) THEN "slide_number"
        ELSE IF text_preview # <<>> THEN "content"
        ELSE IF "has_table" \in sh.raises THEN "raise"
        ELSE IF "has_table" \in sh.attrs /\ sh.has_table THEN "content"
        ELSE IF "has_chart" \in sh.raises THEN "raise"
        ELSE IF "has_chart" \in sh.attrs /\ sh.has_chart THEN "content"
        ELSE "other"

\* a bucketing that appends a slide number shape to the remaining shapes
BucketOfKeepingAll(role) ==
    CASE role = "title"   -> "title_shapes"
      [] role = "content" -> "content_shapes"
      [] OTHER            -> "other_shapes"

\* the bucket a role's shape is appended to ("none": appended to no bucket)
BucketOf(role) ==
    CASE role = "title"        -> "title_shapes"
      [] role = "slide_number" -> "none"
      [] role = "content"      -> "content_shapes"
      [] OTHER                 -> "other_shapes"

\* lines 77-108: the three buckets filled from the deduplicated shapes, and the
\* classification map; an exception of the loop leaves neither
Bucketed(deduplicated_shapes) ==
    IF \E i \in 1..Len(deduplicated_shapes) : BucketRole(deduplicated_shapes[i]) = "raise"
    THEN [raised |-> TRUE, value |-> <<>>, shape_classifications |-> <<>>]
    ELSE [raised |-> FALSE,
          value  |-> SelectSeq(deduplicated_shapes,
                               LAMBDA s : BucketOf(BucketRole(s)) = "title_shapes")
                     \o SelectSeq(deduplicated_shapes,
                               LAMBDA s : BucketOf(BucketRole(s)) = "content_shapes")
                     \o SelectSeq(deduplicated_shapes,
                               LAMBDA s : BucketOf(BucketRole(s)) = "other_shapes"),
          shape_classifications |->
              [s \in {deduplicated_shapes[i] : i \in 1..Len(deduplicated_shapes)} |->
                  BucketRole(s)]]

\* line 75 onwards, given the outcome of the group expansion of lines 67-73
BucketExpanded(final_ordered) ==
    IF final_ordered.raised
    THEN [raised |-> TRUE, value |-> <<>>, shape_classifications |-> <<>>]
    ELSE Bucketed(_deduplicate_shapes_by_object_id(final_ordered.value))

\* _get_semantic_accessibility_order: [raised, value, shape_classifications]
_get_semantic_accessibility_order(slide) ==
    BucketExpanded(ExpandOrdered(_get_xml_document_order_deduplicated(slide)))

\* _get_semantic_role_from_xml: the per-shape classifier; every fault gives "other"
_get_semantic_role_from_xml(shape) ==
    LET sh         == Shape[shape]
        shape_name == Lower(IF "name" \in sh.attrs THEN sh.name ELSE <<>>)
        text       == Strip(Lower(sh.text))
    IN  IF "name" \in sh.raises THEN "other"
        ELSE IF Contains(shape_name, S_title) /\ ~Contains(shape_name, S_subtitle) THEN "title"
        ELSE IF Contains(shape_name, S_subtitle) \/ Contains(shape_name, S_sub_title) THEN "subtitle"
        ELSE IF Contains(shape_name, S_slide_number) THEN "slide_number"
        ELSE IF "text" \in sh.raises THEN "other"
        ELSE IF "text" \in sh.attrs /\ sh.text # <<>>
        THEN IF /\ Len(text) < TitleTextLimit
                /\ \E keyword \in {S_title, S_heading, S_header} : Contains(text, keyword)
             THEN "title"
             ELSE IF \E keyword \in {S_subtitle, S_subheading, S_sub_title} : Contains(text, keyword)
             THEN "subtitle"
             ELSE IF Len(text) > ContentTextFloor THEN "content"
             ELSE "other"
        ELSE IF "shape_type" \in sh.raises THEN "other"
        ELSE IF sh.shape_type \in {"PICTURE", "CHART"} THEN "content"
        ELSE IF sh.shape_type = "TABLE" THEN "content"
        ELSE "other"

\* lines 50-59 of get_slide_reading_order: the role of each final shape
shapes_with_roles(final_shapes, classifications) ==
    [i \in 1..Len(final_shapes) |->
        <<final_shapes[i],
          IF final_shapes[i] \in DOMAIN classifications
          THEN classifications[final_shapes[i]]
          ELSE _get_semantic_role_from_xml(final_shapes[i])>>]

\* an extractor whose cache keeps the entries of the earlier calls
WithRolesAccumulated(order, method, cache, final) ==
    IF final.raised
    THEN [raised |-> TRUE, value |-> <<>>,
          last_extraction_method |-> method, shape_classifications |-> cache]
    ELSE [raised |-> FALSE,
          value  |-> shapes_with_roles(final.value, final.shape_classifications),
          last_extraction_method |-> IF order THEN "semantic_accessibility_order"
                                     ELSE "recursive_group_expansion",
          shape_classifications |-> final.shape_classifications @@ cache]

\* lines 50-59, given the outcome of the strategy: the call's outcome and the
\* extractor's fields after it (an exception leaves the fields as they were)
WithRoles(order, method, cache, final) ==
    IF final.raised
    THEN [raised |-> TRUE, value |-> <<>>,
          last_extraction_method |-> method, shape_classifications |-> cache]
    ELSE [raised |-> FALSE,
          value  |-> shapes_with_roles(final.value, final.shape_classifications),
          last_extraction_method |-> IF order THEN "semantic_accessibility_order"
                                     ELSE "recursive_group_expansion",
          shape_classifications |-> final.shape_classifications]

\* the simple strategy leaves self.shape_classifications as it is
KeepingCache(cache, expanded) ==
    [raised |-> expanded.raised, value |-> expanded.value, shape_classifications |-> cache]

\* get_slide_reading_order on an extractor whose fields are (order, method, cache)
get_slide_reading_order(order, method, cache, slide) ==
    WithRoles(order, method, cache,
              IF order
              THEN _get_semantic_accessibility_order(slide)
              ELSE KeepingCache(cache, _expand_all_groups_recursively(slide.shapes)))

-----------------------------------------------------------------------------
(* The resolver as a state machine: an extractor instance is constructed   *)
(* for one strategy and is then asked for the reading order of the slides  *)
(* of a deck, in any order, with configure_extraction_method in between.   *)

\* the shape collections of a slide: no object twice, at most MaxShapes objects
ShapeLists ==
    {q \in UNION {[1..n -> TopLevel] : n \in 0..MaxShapes} :
        \A i, j \in DOMAIN q : i # j => q[i] # q[j]}

\* markup: "ok" (the shape tree is read), "no_sptree" (find gives None),
\* "raises" (reading slide._element or the tree raises)
Slides == {[shapes |-> q, markup |-> m] : q \in ShapeLists, m \in {"ok", "no_sptree", "raises"}}

\* the slide that follows the first one in the deck
FollowingSlides == {[shapes |-> <<2, 6>>, markup |-> "ok"]}

NoCall == [slide |-> 0, semantic |-> FALSE, status |-> "none", value |-> <<>>]

\* the variables of the other components, while the resolver alone runs
Idle == [kind |-> "none"]

\* AccessibilityOrderExtractorV2.__init__, for either strategy
InitOrder ==
    /\ accessibility_order \in BOOLEAN
    /\ last_extraction_method = "not_extracted"
    /\ shape_classifications = <<>>
    /\ deck \in {<<s, f>> : s \in Slides, f \in FollowingSlides}
    /\ call = NoCall
    /\ text_frame = Idle
    /\ extracted = Idle
    /\ hash_order = <<>>
    /\ document = Idle
    /\ conversion = Idle
    /\ previous = Idle
    /\ processor = Idle
    /\ data = Idle
    /\ markdown = Idle

\* the call's outcome recorded and the extractor's fields updated
Returned(i, r) ==
    /\ call' = [slide    |-> i,
                semantic |-> accessibility_order,
                status   |-> IF r.raised THEN "raised" ELSE "returned",
                value    |-> r.value]
    /\ last_extraction_method' = r.last_extraction_method
    /\ shape_classifications' = r.shape_classifications
    /\ UNCHANGED <<accessibility_order, deck, textVars, convertVars, renderVars>>

\* AccessibilityOrderExtractorV2.get_slide_reading_order(deck[i], i)
GetSlideReadingOrder(i) ==
    Returned(i, get_slide_reading_order(accessibility_order, last_extraction_method,
                                        shape_classifications, deck[i]))

\* PowerPointProcessor.configure_extraction_method(use_accessibility_order)
ConfigureExtractionMethod(use_accessibility_order) ==
    /\ accessibility_order' = use_accessibility_order
    /\ UNCHANGED <<last_extraction_method, shape_classifications, deck, call,
                   textVars, convertVars, renderVars>>

NextOrder ==
    \/ \E i \in 1..Len(deck) : GetSlideReadingOrder(i)
    \/ \E b \in BOOLEAN : ConfigureExtractionMethod(b)

SpecOrder == InitOrder /\ [][NextOrder]_vars

-----------------------------------------------------------------------------
(* Properties of the resolver, stated on the last call.                    *)

Count(seq, x) == Cardinality({i \in DOMAIN seq : seq[i] = x})

\* the shapes, and the roles, of the entries the last call returned
OutShapes == [i \in DOMAIN call.value |-> call.value[i][1]]
OutRoles  == [i \in DOMAIN call.value |-> call.value[i][2]]

SemanticReturned == call.status = "returned" /\ call.semantic

\* every traversal path of a slide, before any deduplication: the shapes its
\* markup elements resolve to (its own collection when the markup is not read),
\* groups replaced by their children
TraversalPaths(slide) ==
    ExpandOrdered(IF slide.markup = "ok" THEN ordered_shapes(slide) ELSE slide.shapes).value

\* the flattened, deduplicated shape list of a slide
Flattened(slide) == _deduplicate_shapes_by_object_id(TraversalPaths(slide))

NameOf(s) == Lower(IF "name" \in Shape[s].attrs THEN Shape[s].name ELSE <<>>)

TitleNamed(s)       == Contains(NameOf(s), S_title) /\ ~Contains(NameOf(s), S_subtitle)
SubtitleNamed(s)    == Contains(NameOf(s), S_subtitle)
SlideNumberNamed(s) == ~TitleNamed(s) /\ Contains(NameOf(s), S_slide_number)
HasContent(s) ==
    \/ "text" \in Shape[s].attrs /\ "text" \notin Shape[s].raises /\ Strip(Shape[s].text) # <<>>
    \/ "has_table" \in Shape[s].attrs /\ Shape[s].has_table
    \/ "has_chart" \in Shape[s].attrs /\ Shape[s].has_chart
ContentQualifying(s) == ~TitleNamed(s) /\ ~SlideNumberNamed(s) /\ HasContent(s)

\* C1: in the semantic strategy the output is the title-named shapes, then the
\* subtitle/content-qualifying shapes, then all remaining shapes of the flattened,
\* deduplicated list, each in original relative order: every shape of that list
\* appears exactly once and none is omitted.
C1_BucketedPartition ==
    SemanticReturned =>
        LET flat == Flattened(deck[call.slide])
        IN  /\ OutShapes = SelectSeq(flat, TitleNamed)
                           \o SelectSeq(flat, ContentQualifying)
                           \o SelectSeq(flat, LAMBDA s : ~TitleNamed(s) /\ ~ContentQualifying(s))
            /\ \A i \in DOMAIN flat : Count(OutShapes, flat[i]) = 1

\* C2: in the semantic strategy a shape reachable through two traversal paths
\* appears exactly once in the output, in the relative order of its first
\* occurrence, and no shape identity occurs twice in the output.
C2_ReachableTwiceAppearsOnce ==
    SemanticReturned =>
        LET paths == TraversalPaths(deck[call.slide])
        IN  /\ \A i \in DOMAIN paths :
                   Count(paths, paths[i]) >= 2 => Count(OutShapes, paths[i]) = 1
            /\ \A i \in DOMAIN OutShapes : Count(OutShapes, OutShapes[i]) = 1
            /\ \A i, j \in DOMAIN OutShapes :
                   (i < j /\ OutRoles[i] = OutRoles[j]) =>
                       \E m, n \in DOMAIN paths :
                           /\ m < n
                           /\ paths[m] = OutShapes[i]
                           /\ paths[n] = OutShapes[j]
                           /\ \A k \in 1..(n - 1) : paths[k] # OutShapes[j]

\* C3: when reading the slide's container markup raises, the semantic strategy
\* raises nothing and returns every shape of the slide's native collection, in
\* native order, deduplicated, each with the role of the per-shape fallback
\* classifier, with no bucket reordering.
C3_DegradedNativeOrder ==
    (call.slide # 0 /\ call.semantic /\ deck[call.slide].markup = "raises") =>
        /\ call.status = "returned"
        /\ call.value =
               LET native == _deduplicate_shapes_by_object_id(deck[call.slide].shapes)
               IN  [i \in DOMAIN native |-> <<native[i], _get_semantic_role_from_xml(native[i])>>]

\* C4: a fault raised while flattening groups or bucketing never escapes
\* get_slide_reading_order: the call still returns a list of (shape, role) entries.
C4_NoFaultEscapes ==
    call.slide # 0 => call.status = "returned"

\* C8: in the semantic strategy a shape whose name contains "subtitle" is placed in
\* the content bucket and is returned with role subtitle, taken from the per-shape
\* classification map.
C8_SubtitleRole ==
    SemanticReturned =>
        \A i \in DOMAIN OutShapes :
            SubtitleNamed(OutShapes[i]) =>
                /\ OutRoles[i] = "subtitle"
                /\ shape_classifications[OutShapes[i]] = "subtitle"
                /\ \A j \in DOMAIN OutShapes :
                       /\ TitleNamed(OutShapes[j]) => j < i
                       /\ (~TitleNamed(OutShapes[j]) /\ ~ContentQualifying(OutShapes[j])) => i < j

-----------------------------------------------------------------------------
(* The text processor (powerpoint/text_processor.py).                      *)
(*                                                                         *)
(* A character outside ASCII is one element of a str, written by its code  *)
(* point ("U+2022" is the round bullet).                                   *)

MaxTextLen == 3     \* characters of an enumerated paragraph text
MaxLevel == 1       \* largest lvl attribute of an enumerated paragraph

\* Python None, and a value that is not None
None == [is_none |-> TRUE]
Some(v) == [is_none |-> FALSE, value |-> v]

\* the character class of the pattern in _remove_bullet_char
BulletGlyphs ==
    {"U+2022", "U+25E6", "U+25AA", "U+25AB", "U+2023", "U+00B7", "U+25CB",
     "U+25A0", "U+25A1", "U+2192", "U+25BA", "U+2713", "U+2717", "-", "*",
     "+", "U+203B", "U+25C6", "U+25C7"}

Digits == <<"0","1","2","3","4","5","6","7","8","9">>

IsDigit(c) == \E d \in 1..Len(Digits) : Digits[d] = c

DigitValue(c) == (CHOOSE d \in 1..Len(Digits) : Digits[d] = c) - 1

\* int(s) for a str of decimal digits
RECURSIVE ToInt(_)
ToInt(s) ==
    IF s = <<>> THEN 0
    ELSE 10 * ToInt(SubSeq(s, 1, Len(s) - 1)) + DigitValue(s[Len(s)])

\* str.isupper(): some cased character, and no lower-case one
IsUpper(s) ==
    /\ \E i \in 1..Len(s) : \E k \in 1..Len(UpperCase) : UpperCase[k] = s[i]
    /\ \A i \in 1..Len(s) : \A k \in 1..Len(LowerCase) : LowerCase[k] # s[i]

\* "".join(texts)
RECURSIVE Join(_)
Join(texts) ==
    IF texts = <<>> THEN <<>> ELSE Head(texts) \o Join(Tail(texts))

S_buChar == <<"b","u","C","h","a","r">>
S_buAutoNum == <<"b","u","A","u","t","o","N","u","m">>
S_buFont == <<"b","u","F","o","n","t">>
S_lvl_eq == <<"l","v","l","=","\"">>
S_mailto == <<"m","a","i","l","t","o",":">>
S_https == <<"h","t","t","p","s",":","/","/">>
S_www == <<"w","w","w",".">>
S_at == <<"@">>

\* the prefixes _fix_url takes for a scheme
Schemes ==
    {<<"h","t","t","p",":","/","/">>, S_https, S_mailto, <<"t","e","l",":">>,
     <<"f","t","p",":","/","/">>, <<"#">>}

\* the substrings _fix_url takes for a domain
Domains ==
    {<<".","c","o","m">>, <<".","o","r","g">>, <<".","n","e","t">>, <<".","e","d","u">>,
     <<".","g","o","v">>, <<".","i","o">>}

\* the serialisation of a paragraph element that para._p.xml returns
X_p_open == <<"<","a",":","p",">","<","a",":","p","P","r">>
X_lvl == <<" ","l","v","l","=","\"">>
X_buChar ==
    <<"<","a",":","b","u","C","h","a","r"," ","c","h","a","r","=","\"","U+2022","\"",
      "/",">">>
X_buAutoNum ==
    <<"<","a",":","b","u","A","u","t","o","N","u","m"," ","t","y","p","e","=","\"","a",
      "r","a","b","i","c","P","e","r","i","o","d","\"","/",">">>
X_buFont ==
    <<"<","a",":","b","u","F","o","n","t"," ","t","y","p","e","f","a","c","e","=","\"",
      "A","r","i","a","l","\"","/",">">>
X_r_open == <<"<","a",":","r",">","<","a",":","t",">">>
X_r_close == <<"<","/","a",":","t",">","<","/","a",":","r",">">>
X_fld_open == <<"<","a",":","f","l","d",">","<","a",":","t",">">>
X_fld_close == <<"<","/","a",":","t",">","<","/","a",":","f","l","d",">">>
X_pPr_close == <<"<","/","a",":","p","P","r",">">>
X_p_close == <<"<","/","a",":","p",">">>

\* the bullet element of the paragraph properties
BulletMarkup(bullet) ==
    CASE bullet = "buChar"    -> X_buChar
      [] bullet = "buAutoNum" -> X_buAutoNum
      [] bullet = "buFont"    -> X_buFont
      [] OTHER                -> <<>>

\* the lvl attribute of the paragraph properties (levels are one digit)
LevelMarkup(lvl) ==
    IF lvl = None THEN <<>> ELSE X_lvl \o <<Digits[lvl.value + 1], "\"">>

RECURSIVE RunsMarkup(_)
RunsMarkup(runs) ==
    IF runs = <<>> THEN <<>>
    ELSE X_r_open \o Head(runs).text \o X_r_close \o RunsMarkup(Tail(runs))

\* str(para._p.xml): the properties, then the runs, then the text a field
\* element carries (field text is part of para.text and of no run)
ParaXml(para) ==
    X_p_open \o LevelMarkup(para.lvl) \o <<">">> \o BulletMarkup(para.bullet)
      \o X_pPr_close \o RunsMarkup(para.runs)
      \o (IF para.field = <<>> THEN <<>> ELSE X_fld_open \o para.field \o X_fld_close)
      \o X_p_close

\* para.text
ParaText(para) == Join([i \in 1..Len(para.runs) |-> para.runs[i].text]) \o para.field

\* getattr(para, 'level', None): python-pptx reads the lvl attribute, 0 without it
ParaLevel(para) ==
    IF para.has_level
    THEN (IF para.lvl = None THEN Some(0) ELSE para.lvl)
    ELSE None

\* the last position of the run of digits that starts at p (p - 1 when none does)
DigitsEnd(s, p) ==
    CHOOSE q \in (p - 1)..Len(s) :
        /\ \A j \in p..q : IsDigit(s[j])
        /\ (q = Len(s) \/ ~IsDigit(s[q + 1]))

\* the pattern lvl="(\d+)" matches at position i of s
LevelMatchAt(s, i) ==
    /\ i + Len(S_lvl_eq) <= Len(s)
    /\ SubSeq(s, i, i + Len(S_lvl_eq) - 1) = S_lvl_eq
    /\ DigitsEnd(s, i + Len(S_lvl_eq)) >= i + Len(S_lvl_eq)
    /\ DigitsEnd(s, i + Len(S_lvl_eq)) < Len(s)
    /\ s[DigitsEnd(s, i + Len(S_lvl_eq)) + 1] = "\""

\* int(level_match.group(1)) of re.search(r'lvl="(\d+)"', xml_str), or None
LevelSearchFrom(s, i) ==
    Some(ToInt(SubSeq(s, i + Len(S_lvl_eq), DigitsEnd(s, i + Len(S_lvl_eq)))))

LevelSearch(s) ==
    IF \E i \in 1..Len(s) : LevelMatchAt(s, i)
    THEN LevelSearchFrom(s, CHOOSE i \in 1..Len(s) :
                                /\ LevelMatchAt(s, i)
                                /\ \A j \in 1..(i - 1) : ~LevelMatchAt(s, j))
    ELSE None

\* the scan of the serialised paragraph for the three indicators
ScanBulletFormatting(xml_str) ==
    IF Contains(xml_str, S_buChar) \/ Contains(xml_str, S_buAutoNum)
         \/ Contains(xml_str, S_buFont)
    THEN [is_ppt_bullet |-> TRUE, xml_level |-> LevelSearch(xml_str)]
    ELSE [is_ppt_bullet |-> FALSE, xml_level |-> None]

\* TextProcessor._check_xml_bullet_formatting: a paragraph without _p, or one
\* whose markup cannot be read, is no bullet
_check_xml_bullet_formatting(para) ==
    IF para.markup = "ok"
    THEN ScanBulletFormatting(ParaXml(para))
    ELSE [is_ppt_bullet |-> FALSE, xml_level |-> None]

\* TextProcessor._is_numbered_from_xml
_is_numbered_from_xml(para) ==
    IF para.markup = "ok" THEN Contains(ParaXml(para), S_buAutoNum) ELSE FALSE

\* TextProcessor._determine_bullet_level
_determine_bullet_level(is_ppt_bullet, xml_level, ppt_level) ==
    IF is_ppt_bullet
    THEN (IF xml_level # None THEN xml_level.value
          ELSE IF ppt_level # None THEN ppt_level.value ELSE 0)
    ELSE IF ppt_level # None THEN ppt_level.value
    ELSE -1

\* TextProcessor._remove_bullet_char: one leading glyph and the whitespace after it
_remove_bullet_char(text) ==
    IF text = <<>> THEN text
    ELSE IF text[1] \in BulletGlyphs THEN LStrip(Tail(text))
    ELSE text

\* a normalisation that looks at the scheme before it looks for "@"
FixUrlSchemeFirst(url) ==
    IF url = <<>> THEN url
    ELSE IF \E scheme \in Schemes : StartsWith(url, scheme) THEN url
    ELSE IF Contains(url, S_at) THEN S_mailto \o url
    ELSE IF StartsWith(url, S_www) \/ \E domain \in Domains : Contains(Lower(url), domain)
         THEN S_https \o url
    ELSE url

\* TextProcessor._fix_url
_fix_url(url) ==
    IF url = <<>> THEN url
    ELSE IF Contains(url, S_at) /\ ~StartsWith(url, S_mailto) THEN S_mailto \o url
    ELSE IF /\ ~(\E scheme \in Schemes : StartsWith(url, scheme))
            /\ \/ StartsWith(url, S_www)
               \/ \E domain \in Domains : Contains(Lower(url), domain)
         THEN S_https \o url
    ELSE url

\* TextProcessor._extract_run_formatting: font.bold and font.italic of None
\* count as unset, an empty address as no hyperlink
_extract_run_formatting(run, text_override) ==
    [text      |-> text_override,
     bold      |-> run.bold,
     italic    |-> run.italic,
     hyperlink |-> IF run.address # <<>> THEN Some(_fix_url(run.address)) ELSE None]

\* TextProcessor._find_clean_text_start_position
_find_clean_text_start_position(full_text, clean_text) ==
    IF \E i \in 0..(Len(full_text) - 1) :
           Strip(SubSeq(full_text, i + 1, Len(full_text))) = clean_text
    THEN CHOOSE i \in 0..(Len(full_text) - 1) :
           /\ Strip(SubSeq(full_text, i + 1, Len(full_text))) = clean_text
           /\ \A j \in 0..(i - 1) :
                  Strip(SubSeq(full_text, j + 1, Len(full_text))) # clean_text
    ELSE 0

\* char_count when the loop reaches runs[k]
RunStart(runs, k) == Len(Join([j \in 1..(k - 1) |-> runs[j].text]))

\* the loop of _extract_runs_with_formatting over the runs after a removed prefix
RECURSIVE AlignRuns(_, _, _)
AlignRuns(runs, k, start_pos) ==
    IF k > Len(runs) THEN <<>>
    ELSE IF RunStart(runs, k) + Len(runs[k].text) <= start_pos
         THEN AlignRuns(runs, k + 1, start_pos)
    ELSE IF RunStart(runs, k) < start_pos
         THEN <<_extract_run_formatting(runs[k],
                    SubSeq(runs[k].text, start_pos - RunStart(runs, k) + 1,
                           Len(runs[k].text)))>>
              \o AlignRuns(runs, k + 1, start_pos)
    ELSE IF runs[k].text # <<>>
         THEN <<_extract_run_formatting(runs[k], runs[k].text)>>
              \o AlignRuns(runs, k + 1, start_pos)
    ELSE AlignRuns(runs, k + 1, start_pos)

\* the loop over the runs when no prefix was removed
RECURSIVE KeepRuns(_)
KeepRuns(runs) ==
    IF runs = <<>> THEN <<>>
    ELSE IF Head(runs).text # <<>>
         THEN <<_extract_run_formatting(Head(runs), Head(runs).text)>> \o KeepRuns(Tail(runs))
    ELSE KeepRuns(Tail(runs))

\* TextProcessor._extract_runs_with_formatting
_extract_runs_with_formatting(runs, clean_text, has_prefix_removed) ==
    IF runs = <<>>
    THEN <<[text |-> clean_text, bold |-> FALSE, italic |-> FALSE, hyperlink |-> None]>>
    ELSE IF has_prefix_removed
         THEN AlignRuns(runs, 1, _find_clean_text_start_position(
                  Join([j \in 1..Len(runs) |-> runs[j].text]), clean_text))
    ELSE KeepRuns(runs)

\* the record process_paragraph builds
ParagraphRecord(para, raw_text, ppt_level, bullet_level, clean_text) ==
    [raw_text       |-> raw_text,
     clean_text     |-> clean_text,
     formatted_runs |-> _extract_runs_with_formatting(para.runs, clean_text, bullet_level >= 0),
     hints          |-> [has_powerpoint_level |-> ppt_level # None,
                         powerpoint_level     |-> ppt_level,
                         bullet_level         |-> bullet_level,
                         is_bullet            |-> bullet_level >= 0,
                         is_numbered          |-> _is_numbered_from_xml(para),
                         short_text           |-> Len(clean_text) < 100,
                         all_caps             |-> IF clean_text # <<>> THEN IsUpper(clean_text)
                                                  ELSE FALSE]]

CleanedParagraph(para, raw_text, ppt_level, bullet_level) ==
    ParagraphRecord(para, raw_text, ppt_level, bullet_level,
                    IF bullet_level >= 0 THEN _remove_bullet_char(Strip(raw_text))
                    ELSE Strip(raw_text))

LevelledParagraph(para, raw_text, ppt_level, checked) ==
    CleanedParagraph(para, raw_text, ppt_level,
                     _determine_bullet_level(checked.is_ppt_bullet, checked.xml_level, ppt_level))

\* TextProcessor.process_paragraph
process_paragraph(para) ==
    IF Strip(ParaText(para)) = <<>> THEN None
    ELSE LevelledParagraph(para, ParaText(para), ParaLevel(para),
                           _check_xml_bullet_formatting(para))

\* TextProcessor._analyze_plain_text_hints
_analyze_plain_text_hints(text) ==
    IF text = <<>> THEN <<>>
    ELSE [has_powerpoint_level |-> FALSE,
          powerpoint_level     |-> None,
          bullet_level         |-> -1,
          is_bullet            |-> FALSE,
          is_numbered          |-> FALSE,
          starts_with_bullet   |-> FALSE,
          starts_with_number   |-> FALSE,
          short_text           |-> Len(Strip(text)) < 100,
          all_caps             |-> IF Strip(text) # <<>> THEN IsUpper(Strip(text)) ELSE FALSE,
          likely_heading       |-> 0 < Len(Strip(text)) /\ Len(Strip(text)) < 80]

\* TextProcessor._extract_shape_hyperlink
_extract_shape_hyperlink(shape) ==
    IF shape.click_address # <<>> THEN Some(_fix_url(shape.click_address)) ELSE None

\* shape.text: the paragraphs' texts, one per line
RECURSIVE ShapeText(_)
ShapeText(paragraphs) ==
    IF paragraphs = <<>> THEN <<>>
    ELSE IF Len(paragraphs) = 1 THEN ParaText(paragraphs[1])
    ELSE ParaText(paragraphs[1]) \o <<"\n">> \o ShapeText(Tail(paragraphs))

\* the loop of extract_text_frame: paragraphs of whitespace are skipped, and so
\* is a paragraph for which process_paragraph returns None
RECURSIVE FrameParagraphs(_)
FrameParagraphs(paragraphs) ==
    IF paragraphs = <<>> THEN <<>>
    ELSE IF Strip(ParaText(Head(paragraphs))) = <<>> THEN FrameParagraphs(Tail(paragraphs))
    ELSE IF process_paragraph(Head(paragraphs)) # None
         THEN <<process_paragraph(Head(paragraphs))>> \o FrameParagraphs(Tail(paragraphs))
    ELSE FrameParagraphs(Tail(paragraphs))

TextBlock(paragraphs, shape) ==
    IF paragraphs = <<>> THEN None
    ELSE [type            |-> "text",
          paragraphs      |-> paragraphs,
          shape_hyperlink |-> _extract_shape_hyperlink(shape)]

\* TextProcessor.extract_text_frame
extract_text_frame(frame, shape) ==
    IF frame.paragraphs = <<>> THEN None
    ELSE TextBlock(FrameParagraphs(frame.paragraphs), shape)

\* TextProcessor.extract_plain_text
PlainTextBlock(text, shape) ==
    [type            |-> "text",
     paragraphs      |-> <<[raw_text       |-> text,
                            clean_text     |-> Strip(text),
                            formatted_runs |-> <<[text |-> text, bold |-> FALSE,
                                                  italic |-> FALSE, hyperlink |-> None]>>,
                            hints          |-> _analyze_plain_text_hints(text)]>>,
     shape_hyperlink |-> _extract_shape_hyperlink(shape)]

extract_plain_text(shape) ==
    IF ~shape.has_text \/ ShapeText(shape.paragraphs) = <<>> THEN None
    ELSE PlainTextBlock(ShapeText(shape.paragraphs), shape)

-----------------------------------------------------------------------------
(* The text processor as a state machine: a text frame is handed to the    *)
(* processor and its three entry points are called on it.                  *)

Alphabet == {"U+2022", " ", "A"}

Texts == UNION {[1..m -> Alphabet] : m \in 0..MaxTextLen}

\* texts beyond the enumerated ones: a dash bullet in lower case, and a bullet
\* whose words quote a level attribute
T_dash_item == <<"-"," ","a","b">>
T_quoted_level == <<"U+2022"," ","l","v","l","=","\"","2","\"">>
T_link == <<"w","w","w",".","a",".","i","o">>

Run(text) == [text |-> text, bold |-> FALSE, italic |-> FALSE, address |-> <<>>]

\* the runs of a paragraph with the given text: k = 0 puts the text in a field
\* element (no run), k = Len(text) + 1 appends an empty run
SplitRuns(text, k) ==
    IF k = 0 THEN <<>>
    ELSE IF k < Len(text) THEN <<Run(SubSeq(text, 1, k)), Run(SubSeq(text, k + 1, Len(text)))>>
    ELSE IF k = Len(text) THEN <<Run(text)>>
    ELSE <<Run(text), Run(<<>>)>>

Levels == {None} \cup {Some(n) : n \in 0..MaxLevel}

Paragraph(text, k, bullet, lvl, has_level, markup) ==
    [runs      |-> SplitRuns(text, k),
     field     |-> IF k = 0 THEN text ELSE <<>>,
     bullet    |-> bullet,
     lvl       |-> lvl,
     has_level |-> has_level,
     markup    |-> markup]

\* python-pptx paragraphs (readable markup, a level), duck-typed paragraphs
\* without a level, and paragraphs whose markup is absent or cannot be read
Paragraphs ==
    {Paragraph(t, k, b, l, TRUE, "ok") :
        t \in Texts, k \in 0..(MaxTextLen + 1),
        b \in {"none", "buChar", "buAutoNum", "buFont"}, l \in Levels}
    \cup {Paragraph(t, Len(t), b, None, FALSE, "ok") :
        t \in Texts, b \in {"none", "buChar", "buAutoNum", "buFont"}}
    \cup {Paragraph(t, Len(t), "buChar", None, h, m) :
        t \in Texts, h \in BOOLEAN, m \in {"absent", "raises"}}

\* paragraphs of the longer texts
LongParagraphs ==
    {Paragraph(t, Len(t), b, None, h, "ok") :
        t \in {T_dash_item, T_quoted_level}, b \in {"none", "buChar"}, h \in BOOLEAN}

FollowingParagraphs ==
    {Paragraph(<<" ">>, 1, "none", None, TRUE, "ok"),
     Paragraph(<<"A">>, 1, "none", None, FALSE, "ok")}

\* a frame of one paragraph, a frame of two, and a shape without paragraphs
TextFrames ==
    {[paragraphs |-> <<p>>, has_text |-> TRUE, click_address |-> <<>>] : p \in Paragraphs}
    \cup {[paragraphs |-> <<p, f>>, has_text |-> TRUE, click_address |-> c] :
        p \in LongParagraphs, f \in FollowingParagraphs, c \in {<<>>, T_link}}
    \cup {[paragraphs |-> <<>>, has_text |-> h, click_address |-> <<>>] : h \in BOOLEAN}

InitText ==
    /\ text_frame \in TextFrames
    /\ extracted = [op |-> "none"]
    /\ accessibility_order = TRUE
    /\ last_extraction_method = "not_extracted"
    /\ shape_classifications = <<>>
    /\ deck = <<>>
    /\ call = NoCall
    /\ hash_order = <<>>
    /\ document = Idle
    /\ conversion = Idle
    /\ previous = Idle
    /\ processor = Idle
    /\ data = Idle
    /\ markdown = Idle

\* TextProcessor.process_paragraph(text_frame.paragraphs[i])
ProcessParagraph(i) ==
    /\ extracted' = [op    |-> "process_paragraph",
                     para  |-> i,
                     value |-> process_paragraph(text_frame.paragraphs[i])]
    /\ UNCHANGED <<text_frame, orderVars, convertVars, renderVars>>

\* TextProcessor.extract_text_frame(text_frame, shape)
ExtractTextFrame ==
    /\ extracted' = [op    |-> "extract_text_frame",
                     value |-> extract_text_frame(text_frame, text_frame)]
    /\ UNCHANGED <<text_frame, orderVars, convertVars, renderVars>>

\* TextProcessor.extract_plain_text(shape)
ExtractPlainText ==
    /\ extracted' = [op    |-> "extract_plain_text",
                     value |-> extract_plain_text(text_frame)]
    /\ UNCHANGED <<text_frame, orderVars, convertVars, renderVars>>

NextText ==
    \/ \E i \in 1..Len(text_frame.paragraphs) : ProcessParagraph(i)
    \/ ExtractTextFrame
    \/ ExtractPlainText

SpecText == InitText /\ [][NextText]_vars

-----------------------------------------------------------------------------
(* Properties of the text processor.                                       *)

\* the paragraph the last process_paragraph call was given
ProcessedParagraph == text_frame.paragraphs[extracted.para]

\* s is one glyph, then whitespace up to position k, then a text X that is not
\* empty and does not begin with whitespace
GlyphThenText(s, k) ==
    /\ s[1] \in BulletGlyphs
    /\ k < Len(s)
    /\ \A j \in 2..k : s[j] \in Whitespace
    /\ s[k + 1] \notin Whitespace

\* the paragraph's markup has a bullet-glyph element and no level attribute
GlyphMarkupWithoutLevel(para) ==
    para.markup = "ok" /\ para.bullet = "buChar" /\ para.lvl = None

\* C9: for every paragraph whose markup has a bullet-glyph indicator and no
\* level attribute and whose trimmed text is a recognised glyph followed by a
\* text X, process_paragraph returns clean_text = X, is_bullet = TRUE and
\* bullet_level = 0.
C9_BulletExtraction ==
    (extracted.op = "process_paragraph" /\ GlyphMarkupWithoutLevel(ProcessedParagraph)) =>
        \A k \in 1..Len(Strip(ParaText(ProcessedParagraph))) :
            GlyphThenText(Strip(ParaText(ProcessedParagraph)), k) =>
                /\ extracted.value # None
                /\ extracted.value.clean_text =
                       SubSeq(Strip(ParaText(ProcessedParagraph)), k + 1,
                              Len(Strip(ParaText(ProcessedParagraph))))
                /\ extracted.value.hints.is_bullet
                /\ extracted.value.hints.bullet_level = 0

\* C10: no record with an empty clean_text is produced: process_paragraph
\* returns None exactly for a paragraph of whitespace and otherwise a record
\* whose clean_text is not empty, and every paragraph of a block returned by
\* extract_text_frame or extract_plain_text has a clean_text that is not empty.
C10_NoEmptyCleanText ==
    /\ extracted.op = "process_paragraph" =>
           /\ extracted.value = None <=> Strip(ParaText(ProcessedParagraph)) = <<>>
           /\ extracted.value # None => extracted.value.clean_text # <<>>
    /\ (extracted.op \in {"extract_text_frame", "extract_plain_text"}
          /\ extracted.value # None) =>
           \A j \in 1..Len(extracted.value.paragraphs) :
               extracted.value.paragraphs[j].clean_text # <<>>

-----------------------------------------------------------------------------
(* The metadata extractor (powerpoint/metadata_extractor.py).              *)
(*                                                                         *)
(* A dict is a function on its keys; a property value is one token, the    *)
(* empty str "". A formatted comment is the sequence of its lines, a line  *)
(* the pair of its label and its value.                                    *)

MaxInstances == 2   \* PowerPointProcessor instances constructed in a behaviour

\* dict.get(key, default)
Get(dict, key, default) == IF key \in DOMAIN dict THEN dict[key] ELSE default

\* separator.join(items)
RECURSIVE JoinWith(_, _)
JoinWith(separator, items) ==
    IF items = <<>> THEN <<>>
    ELSE IF Len(items) = 1 THEN <<items[1]>>
    ELSE <<items[1], separator>> \o JoinWith(separator, Tail(items))

\* the elements of a set of str in the order the interpreter iterates them:
\* the order follows the str hashes, which are seeded when the interpreter starts
SetIteration(order, items) == SelectSeq(order, LAMBDA x : x \in items)

\* MetadataExtractor._extract_document_properties
_extract_document_properties(core_props) ==
    [k \in {"title", "author", "subject", "keywords", "comments", "category",
            "content_status", "language", "version"} |-> core_props[k]]

\* MetadataExtractor._extract_date_properties
_extract_date_properties(core_props) ==
    [k \in {"created", "modified", "last_modified_by", "last_printed"} |-> core_props[k]]

\* MetadataExtractor._extract_revision_properties
_extract_revision_properties(core_props) ==
    [k \in {"revision", "identifier"} |-> core_props[k]]

\* the names of the layouts of all masters, in master order; unnamed layouts left out
RECURSIVE LayoutNamesOf(_)
LayoutNamesOf(slide_masters) ==
    IF slide_masters = <<>> THEN <<>>
    ELSE SelectSeq(Head(slide_masters), LAMBDA name : name # "")
         \o LayoutNamesOf(Tail(slide_masters))

\* MetadataExtractor._extract_presentation_properties: ', '.join(set(layout_names))
_extract_presentation_properties(presentation, order) ==
    IF presentation.slide_masters # <<>>
    THEN [slide_count        |-> Len(presentation.slides),
          slide_master_count |-> Len(presentation.slide_masters),
          layout_types       |->
              JoinWith(", ", SetIteration(order,
                  {LayoutNamesOf(presentation.slide_masters)[i] :
                      i \in 1..Len(LayoutNamesOf(presentation.slide_masters))}))]
    ELSE [slide_count |-> Len(presentation.slides), slide_master_count |-> 0,
          layout_types |-> <<>>]

\* MetadataExtractor._extract_application_properties: a python-pptx presentation
\* has no app_properties
_extract_application_properties(presentation) ==
    [application |-> "", app_version |-> "", company |-> "", doc_security |-> None]

\* MetadataExtractor.extract_pptx_metadata: the file name of a stream cannot be
\* taken, and that fault, like a fault of core_properties, leaves the dict empty
extract_pptx_metadata(presentation, order) ==
    IF presentation.core_properties = None \/ presentation.filename = None THEN <<>>
    ELSE [filename |-> presentation.filename.value, file_size |-> presentation.file_size]
         @@ _extract_document_properties(presentation.core_properties.value)
         @@ _extract_date_properties(presentation.core_properties.value)
         @@ _extract_revision_properties(presentation.core_properties.value)
         @@ _extract_presentation_properties(presentation, order)
         @@ _extract_application_properties(presentation)

\* the lines of the keys that are set, for keys whose value is a str
StrLines(metadata, fields) ==
    [i \in 1..Len(SelectSeq(fields, LAMBDA f : Get(metadata, f[1], "") # "")) |->
        <<SelectSeq(fields, LAMBDA f : Get(metadata, f[1], "") # "")[i][2],
          metadata[SelectSeq(fields, LAMBDA f : Get(metadata, f[1], "") # "")[i][1]]>>]

\* the same for keys whose value is None or a value
OptionLines(metadata, fields) ==
    [i \in 1..Len(SelectSeq(fields, LAMBDA f : Get(metadata, f[1], None) # None)) |->
        <<SelectSeq(fields, LAMBDA f : Get(metadata, f[1], None) # None)[i][2],
          metadata[SelectSeq(fields, LAMBDA f : Get(metadata, f[1], None) # None)[i][1]].value>>]

\* MetadataExtractor._format_document_metadata
_format_document_metadata(metadata) ==
    StrLines(metadata, <<<<"title", "Document Title">>, <<"author", "Author">>,
                         <<"subject", "Subject">>, <<"keywords", "Keywords">>,
                         <<"category", "Category">>, <<"comments", "Document Comments">>,
                         <<"content_status", "Content Status">>,
                         <<"language", "Language">>, <<"version", "Version">>>>)

\* MetadataExtractor._format_date_metadata
_format_date_metadata(metadata) ==
    OptionLines(metadata, <<<<"created", "Created Date">>, <<"modified", "Last Modified">>>>)
    \o StrLines(metadata, <<<<"last_modified_by", "Last Modified By">>>>)
    \o OptionLines(metadata, <<<<"last_printed", "Last Printed">>>>)

\* file_size / (1024 * 1024) to two decimals, in hundredths of a megabyte
FileSizeMb(file_size) == (file_size * 100 + 524288) \div 1048576

\* MetadataExtractor._format_file_metadata
_format_file_metadata(metadata) ==
    <<<<"Filename", Get(metadata, "filename", "unknown")>>>>
    \o (IF Get(metadata, "file_size", None) # None /\ Get(metadata, "file_size", None).value # 0
        THEN <<<<"File Size", FileSizeMb(metadata["file_size"].value)>>>> ELSE <<>>)
    \o StrLines(metadata, <<<<"application", "Created With">>, <<"company", "Company">>>>)

\* MetadataExtractor._format_presentation_metadata
_format_presentation_metadata(metadata) ==
    <<<<"Slide Count", Get(metadata, "slide_count", 0)>>>>
    \o (IF Get(metadata, "slide_master_count", 0) # 0
        THEN <<<<"Slide Masters", metadata["slide_master_count"]>>>> ELSE <<>>)
    \o (IF Get(metadata, "layout_types", <<>>) # <<>>
        THEN <<<<"Layout Types", metadata["layout_types"]>>>> ELSE <<>>)

\* MetadataExtractor.add_pptx_metadata
add_pptx_metadata(markdown_content, metadata) ==
    <<<<"<!-- POWERPOINT METADATA:">>>>
    \o _format_document_metadata(metadata)
    \o _format_date_metadata(metadata)
    \o _format_file_metadata(metadata)
    \o _format_presentation_metadata(metadata)
    \o <<<<"-->">>>>
    \o markdown_content

-----------------------------------------------------------------------------
(* The orchestrator (powerpoint/powerpoint_processor.py).                  *)
(*                                                                         *)
(* Markdown is the sequence of its parts; an exception is the sequence of  *)
(* the pieces of its message, the wrapping prefixes first.                 *)

\* ContentExtractor.extract_shape_content: the block of a shape with its role,
\* None for a shape without content
extract_shape_content(shape, semantic_role) ==
    IF "text" \in Shape[shape].attrs /\ Strip(Shape[shape].text) # <<>>
    THEN Some([type |-> "text", shape |-> shape, semantic_role |-> semantic_role])
    ELSE IF Shape[shape].has_table
    THEN Some([type |-> "table", shape |-> shape, semantic_role |-> semantic_role])
    ELSE IF Shape[shape].has_chart
    THEN Some([type |-> "chart", shape |-> shape, semantic_role |-> semantic_role])
    ELSE IF Shape[shape].shape_type = "PICTURE"
    THEN Some([type |-> "image", shape |-> shape, semantic_role |-> semantic_role])
    ELSE None

\* the loop of extract_slide_data over the (shape, role) pairs
RECURSIVE ContentBlocks(_)
ContentBlocks(pairs) ==
    IF pairs = <<>> THEN <<>>
    ELSE IF extract_shape_content(Head(pairs)[1], Head(pairs)[2]) # None
         THEN <<extract_shape_content(Head(pairs)[1], Head(pairs)[2]).value>>
              \o ContentBlocks(Tail(pairs))
    ELSE ContentBlocks(Tail(pairs))

\* PowerPointProcessor.extract_slide_data, given what the resolver returned
extract_slide_data(pairs, slide_number) ==
    [slide_number      |-> slide_number,
     content_blocks    |-> ContentBlocks(pairs),
     extraction_method |-> "semantic_accessibility_order_v2"]

\* PowerPointProcessor.extract_presentation_data from slide i on: the resolver
\* is called slide by slide on the extractor's fields, and its exception ends
\* the loop with the fields as the earlier slides left them
RECURSIVE ExtractFrom(_, _, _, _, _, _, _)
ExtractedSlide(order, slides, i, done, last, r) ==
    IF r.raised
    THEN [raised |-> TRUE, value |-> <<"shape fault">>,
          last_extraction_method |-> r.last_extraction_method,
          shape_classifications |-> r.shape_classifications,
          call |-> [slide |-> i, semantic |-> order, status |-> "raised", value |-> <<>>]]
    ELSE ExtractFrom(order, r.last_extraction_method, r.shape_classifications, slides, i + 1,
                     Append(done, extract_slide_data(r.value, i)),
                     [slide |-> i, semantic |-> order, status |-> "returned",
                      value |-> r.value])

ExtractFrom(order, method, cache, slides, i, done, last) ==
    IF i > Len(slides)
    THEN [raised |-> FALSE,
          value  |-> [total_slides |-> Len(slides), slides |-> done],
          last_extraction_method |-> method,
          shape_classifications |-> cache,
          call |-> last]
    ELSE ExtractedSlide(order, slides, i, done, last,
                        get_slide_reading_order(order, method, cache, slides[i]))

extract_presentation_data(order, method, cache, last, presentation) ==
    ExtractFrom(order, method, cache, presentation.slides, 1, <<>>, last)

\* markdown_parts of MarkdownConverter.convert_structured_data_to_markdown on the
\* blocks of the orchestrator: a marker for each slide, then a part for each
\* of its blocks (the text of a part is rendered by the converter's own rules)
RECURSIVE markdown_parts(_)
markdown_parts(slides) ==
    IF slides = <<>> THEN <<>>
    ELSE <<<<"<!-- Slide", Head(slides).slide_number, "-->">>>>
         \o [j \in 1..Len(Head(slides).content_blocks) |->
                <<Head(slides).content_blocks[j].type,
                  Head(slides).content_blocks[j].shape,
                  Head(slides).content_blocks[j].semantic_role>>]
         \o markdown_parts(Tail(slides))

\* a check in which no file is turned away: the open is left to the pipeline
OpenLeftToPipeline(file) == TRUE

\* PowerPointProcessor._has_xml_access: a failure to open the file is absorbed
_has_xml_access(file) ==
    IF file.opens THEN Len(file.slides) > 0 ELSE FALSE

\* PowerPointProcessor._sophisticated_xml_processing, given the structured data
StructuredMarkdown(file, order, structured_data) ==
    IF structured_data.raised THEN structured_data
    ELSE [structured_data EXCEPT
             !.value = add_pptx_metadata(
                           markdown_parts(structured_data.value.slides),
                           extract_pptx_metadata(file, order))]

_sophisticated_xml_processing(file, order, accessibility, method, cache, last) ==
    IF ~file.opens
    THEN [raised |-> TRUE, value |-> <<"open failure">>,
          last_extraction_method |-> method, shape_classifications |-> cache, call |-> last]
    ELSE StructuredMarkdown(file, order,
             extract_presentation_data(accessibility, method, cache, last, file))

\* PowerPointProcessor._simple_markitdown_processing
_simple_markitdown_processing(file) ==
    CASE file.markitdown = "converts" ->
             [raised |-> FALSE,
              value  |-> <<<<"<!-- Converted using MarkItDown fallback - XML not available -->">>,
                           <<"MarkItDown content">>>>]
      [] file.markitdown = "no content" ->
             [raised |-> TRUE,
              value  |-> <<"MarkItDown processing failed: ",
                           "Neither 'markdown' nor 'text_content' attribute found on result object">>]
      [] OTHER ->
             [raised |-> TRUE,
              value  |-> <<"MarkItDown processing failed: ", "MarkItDown failure">>]

\* the extractor's fields are as they were when the fallback ran
WithFields(r, method, cache, last) ==
    [raised |-> r.raised, value |-> r.value,
     last_extraction_method |-> method, shape_classifications |-> cache, call |-> last]

\* the except clause of convert_pptx_to_markdown_enhanced
Wrapped(r) ==
    IF r.raised
    THEN [r EXCEPT !.value = <<"Error processing PowerPoint file: ">> \o r.value]
    ELSE r

\* PowerPointProcessor.convert_pptx_to_markdown_enhanced
convert_pptx_to_markdown_enhanced(file, order, accessibility, method, cache, last) ==
    Wrapped(IF _has_xml_access(file)
            THEN _sophisticated_xml_processing(file, order, accessibility, method, cache, last)
            ELSE WithFields(_simple_markitdown_processing(file), method, cache, last))

-----------------------------------------------------------------------------
(* The orchestrator as a state machine: one file is converted again and    *)
(* again, on the same PowerPointProcessor, on a new one, or after the      *)
(* interpreter was started anew.                                           *)

LayoutNames == {"Title Slide", "Blank"}

\* the orders in which a set of the layout names can be iterated
HashOrders ==
    {q \in [1..Cardinality(LayoutNames) -> LayoutNames] :
        \A i, j \in DOMAIN q : i # j => q[i] # q[j]}

UnsetCore ==
    [title |-> "", author |-> "", subject |-> "", keywords |-> "", comments |-> "",
     category |-> "", content_status |-> "", language |-> "", version |-> "",
     created |-> None, modified |-> None, last_modified_by |-> "", last_printed |-> None,
     revision |-> None, identifier |-> ""]

TitledCore ==
    [UnsetCore EXCEPT !.title = "Plan", !.author = "A. N. Author",
                      !.created = Some("2024-01-01 09:00:00")]

\* the slide collections of the files: no slide, titled slides, a slide with a
\* shape whose kind cannot be read, a slide whose markup cannot be read
ConvertDecks ==
    {<<>>,
     <<[shapes |-> <<2, 1>>, markup |-> "ok"]>>,
     <<[shapes |-> <<4, 3>>, markup |-> "ok"], [shapes |-> <<2, 6>>, markup |-> "ok"]>>,
     <<[shapes |-> <<1>>, markup |-> "ok"], [shapes |-> <<11>>, markup |-> "ok"]>>,
     <<[shapes |-> <<8, 2>>, markup |-> "raises"]>>}

SlideMasters ==
    {<<>>, <<<<"Title Slide", "Blank">>>>, <<<<"Blank", "Title Slide">>, <<"Blank", "">>>>}

\* what is known of a file handed over by path or as a stream (no file name)
FileSources ==
    {[core_properties |-> Some(TitledCore), filename |-> Some("deck.pptx"),
      file_size |-> Some(2097152)],
     [core_properties |-> Some(UnsetCore), filename |-> Some("deck.pptx"),
      file_size |-> Some(0)],
     [core_properties |-> None, filename |-> Some("deck.pptx"), file_size |-> None],
     [core_properties |-> Some(TitledCore), filename |-> None, file_size |-> None]}

MarkItDownOutcomes == {"converts", "no content", "fails"}

File(opens, slides, slide_masters, source, markitdown) ==
    [opens |-> opens, slides |-> slides, slide_masters |-> slide_masters,
     core_properties |-> source.core_properties, filename |-> source.filename,
     file_size |-> source.file_size, markitdown |-> markitdown]

\* files that python-pptx opens with slides, a file it opens without a slide,
\* and files it does not open; MarkItDown is tried on the last two only
Files ==
    {File(TRUE, d, m, f, "converts") :
        d \in ConvertDecks \ {<<>>}, m \in SlideMasters, f \in FileSources}
    \cup {File(TRUE, <<>>, m, f, k) :
        m \in SlideMasters \ {<<>>}, f \in FileSources, k \in MarkItDownOutcomes}
    \cup {File(FALSE, <<>>, <<>>, f, k) : f \in FileSources, k \in MarkItDownOutcomes}

\* PowerPointProcessor.__init__ in a started interpreter, before any conversion
InitConvert ==
    /\ document \in Files
    /\ deck = document.slides
    /\ hash_order \in HashOrders
    /\ accessibility_order \in BOOLEAN
    /\ last_extraction_method = "not_extracted"
    /\ shape_classifications = <<>>
    /\ call = NoCall
    /\ processor = [instance |-> 1, used |-> FALSE]
    /\ conversion = Idle
    /\ previous = Idle
    /\ text_frame = Idle
    /\ extracted = Idle
    /\ data = Idle
    /\ markdown = Idle

\* the conversion's outcome recorded and the extractor's fields updated
Converted(r) ==
    /\ previous' = conversion
    /\ conversion' = [kind     |-> "call",
                      config   |-> accessibility_order,
                      instance |-> processor.instance,
                      fresh    |-> ~processor.used,
                      path     |-> IF _has_xml_access(document) THEN "xml" ELSE "markitdown",
                      status   |-> IF r.raised THEN "raised" ELSE "returned",
                      value    |-> r.value]
    /\ last_extraction_method' = r.last_extraction_method
    /\ shape_classifications' = r.shape_classifications
    /\ call' = r.call
    /\ processor' = [processor EXCEPT !.used = TRUE]
    /\ UNCHANGED <<accessibility_order, deck, document, hash_order, textVars, renderVars>>

\* PowerPointProcessor.convert_pptx_to_markdown_enhanced(document, convert_slide_titles)
Convert(convert_slide_titles) ==
    Converted(convert_pptx_to_markdown_enhanced(document, hash_order, accessibility_order,
                  last_extraction_method, shape_classifications, call))

\* PowerPointProcessor.__init__(use_accessibility_order): another instance
NewProcessor(use_accessibility_order) ==
    /\ processor.instance < MaxInstances
    /\ processor' = [instance |-> processor.instance + 1, used |-> FALSE]
    /\ accessibility_order' = use_accessibility_order
    /\ last_extraction_method' = "not_extracted"
    /\ shape_classifications' = <<>>
    /\ call' = NoCall
    /\ UNCHANGED <<deck, document, hash_order, conversion, previous, textVars, renderVars>>

\* the interpreter is started anew (str hashes are seeded again) and a
\* PowerPointProcessor is constructed in it
RestartInterpreter(order, use_accessibility_order) ==
    /\ processor.instance < MaxInstances
    /\ hash_order' = order
    /\ processor' = [instance |-> processor.instance + 1, used |-> FALSE]
    /\ accessibility_order' = use_accessibility_order
    /\ last_extraction_method' = "not_extracted"
    /\ shape_classifications' = <<>>
    /\ call' = NoCall
    /\ UNCHANGED <<deck, document, conversion, previous, textVars, renderVars>>

NextConvert ==
    \/ \E b \in BOOLEAN : Convert(b)
    \/ \E b \in BOOLEAN : ConfigureExtractionMethod(b)
    \/ \E b \in BOOLEAN : NewProcessor(b)
    \/ \E order \in HashOrders, b \in BOOLEAN : RestartInterpreter(order, b)

SpecConvert == InitConvert /\ [][NextConvert]_vars

-----------------------------------------------------------------------------
(* Properties of the orchestrator, stated on the last conversions.         *)

Called == conversion.kind = "call"

FallbackMarkdown ==
    <<<<"<!-- Converted using MarkItDown fallback - XML not available -->">>,
      <<"MarkItDown content">>>>

\* C5: a file that cannot be opened ends the conversion in an exception that
\* carries the open failure; no markdown is returned for it.
C5_OpenFailureRaised ==
    (Called /\ ~document.opens) =>
        /\ conversion.status = "raised"
        /\ conversion.value[Len(conversion.value)] = "open failure"

\* C5, as the code has it: the open failure is absorbed and the file is handed
\* to MarkItDown; its markdown is returned behind the fallback comment, and the
\* exception raised when MarkItDown fails carries MarkItDown's failure.
C5_OpenFailureFallsBack ==
    (Called /\ ~document.opens) =>
        /\ conversion.path = "markitdown"
        /\ document.markitdown = "converts" =>
               conversion.status = "returned" /\ conversion.value = FallbackMarkdown
        /\ document.markitdown # "converts" =>
               /\ conversion.status = "raised"
               /\ SubSeq(conversion.value, 1, 2) =
                      <<"Error processing PowerPoint file: ", "MarkItDown processing failed: ">>
               /\ conversion.value[Len(conversion.value)] # "open failure"

C5_Witness ==
    Called /\ ~document.opens /\ conversion.status = "returned"

\* C6: MarkItDown is invoked only for a file that could not be opened; a file
\* that opens, one without slides included, goes through the structured
\* pipeline, also when the structured extraction faults.
C6_FallbackOnlyUnopened ==
    Called => (conversion.path = "markitdown" <=> ~document.opens)

\* C7: two conversions of the same file under the same configuration, back to
\* back on one instance or each on a fresh instance, give the same markdown.
C7_SameMarkdownTwice ==
    (/\ Called
     /\ previous.kind = "call"
     /\ conversion.config = previous.config
     /\ \/ conversion.instance = previous.instance
        \/ conversion.fresh /\ previous.fresh) =>
        /\ conversion.status = previous.status
        /\ conversion.value = previous.value

-----------------------------------------------------------------------------
(* Hyperlink targets: the text processor on frames whose run and whose     *)
(* shape carry a hyperlink.                                                *)

UrlPrefixes ==
    {<<>>,
     <<"h","t","t","p",":","/","/">>,
     <<"h","t","t","p","s",":","/","/">>,
     <<"m","a","i","l","t","o",":">>,
     <<"t","e","l",":">>,
     <<"f","t","p",":","/","/">>,
     <<"#">>,
     <<"w","w","w",".">>,
     <<"M","a","i","l","t","o",":">>,
     <<"H","T","T","P",":","/","/">>}

UrlBodies ==
    {<<"x">>,
     <<"u","@","x">>,
     <<"x",".","c","o","m">>,
     <<"x",".","C","O","M">>,
     <<"x",".","d","e">>,
     <<"a",".","i","o">>,
     <<"b",".","o","r","g","/","a">>}

U_user_at_example == <<"u","s","e","r","@","e","x","a","m","p","l","e",".","c","o","m">>
U_www_example == <<"w","w","w",".","e","x","a","m","p","l","e",".","c","o","m">>
U_https_x == <<"h","t","t","p","s",":","/","/","x",".","c","o","m">>

\* the addresses a hyperlink can carry
Urls ==
    {p \o b : p \in UrlPrefixes, b \in UrlBodies}
    \cup {U_user_at_example, U_www_example, U_https_x}

\* a paragraph of one run that carries a hyperlink (no address: no hyperlink)
LinkedParagraph(address) ==
    [runs      |-> <<[text |-> <<"A">>, bold |-> FALSE, italic |-> FALSE,
                      address |-> address]>>,
     field     |-> <<>>,
     bullet    |-> "none",
     lvl       |-> None,
     has_level |-> TRUE,
     markup    |-> "ok"]

\* frames with a hyperlink on the run, on the shape, or on both
UrlFrames ==
    {[paragraphs |-> <<LinkedParagraph(u[1])>>, has_text |-> TRUE, click_address |-> u[2]] :
        u \in UNION {{<<a, a>>, <<a, <<>>>>, <<<<>>, a>>} : a \in Urls}}

InitUrl ==
    /\ text_frame \in UrlFrames
    /\ extracted = [op |-> "none"]
    /\ accessibility_order = TRUE
    /\ last_extraction_method = "not_extracted"
    /\ shape_classifications = <<>>
    /\ deck = <<>>
    /\ call = NoCall
    /\ hash_order = <<>>
    /\ document = Idle
    /\ conversion = Idle
    /\ previous = Idle
    /\ processor = Idle
    /\ data = Idle
    /\ markdown = Idle

SpecUrl == InitUrl /\ [][NextText]_vars

\* the normalisation, rule by rule: the mail rule, then the https rule for a
\* target without recognised scheme, then no change
NormalisedUrl(url) ==
    IF Contains(url, S_at) /\ ~StartsWith(url, S_mailto)
    THEN <<"m","a","i","l","t","o",":">> \o url
    ELSE IF /\ \A scheme \in Schemes : ~StartsWith(url, scheme)
            /\ \/ StartsWith(url, S_www)
               \/ \E domain \in Domains : Contains(Lower(url), domain)
    THEN <<"h","t","t","p","s",":","/","/">> \o url
    ELSE url

\* the hyperlink a record carries for an address
LinkFor(address) == IF address = <<>> THEN None ELSE Some(NormalisedUrl(address))

\* C11: every hyperlink target that is not empty is normalised by the mail
\* rule, else the https rule, else left unchanged, on the run hyperlinks and
\* on the shape hyperlink alike; "user@example.com" becomes
\* "mailto:user@example.com", "www.example.com" becomes
\* "https://www.example.com" and "https://x.com" is unchanged.
C11_UrlNormalised ==
    /\ extracted.op = "process_paragraph" =>
           extracted.value.formatted_runs[1].hyperlink =
               LinkFor(text_frame.paragraphs[1].runs[1].address)
    /\ extracted.op = "extract_text_frame" =>
           /\ extracted.value.shape_hyperlink = LinkFor(text_frame.click_address)
           /\ extracted.value.paragraphs[1].formatted_runs[1].hyperlink =
                  LinkFor(text_frame.paragraphs[1].runs[1].address)
    /\ extracted.op = "extract_plain_text" =>
           extracted.value.shape_hyperlink = LinkFor(text_frame.click_address)
    /\ (extracted.op = "extract_text_frame" /\ text_frame.click_address = U_user_at_example) =>
           extracted.value.shape_hyperlink = Some(S_mailto \o U_user_at_example)
    /\ (extracted.op = "extract_text_frame" /\ text_frame.click_address = U_www_example) =>
           extracted.value.shape_hyperlink = Some(S_https \o U_www_example)
    /\ (extracted.op = "extract_text_frame" /\ text_frame.click_address = U_https_x) =>
           extracted.value.shape_hyperlink = Some(U_https_x)

C11_Witness ==
    /\ extracted.op = "extract_text_frame"
    /\ text_frame.click_address = U_user_at_example
    /\ text_frame.paragraphs[1].runs[1].address = U_user_at_example
    /\ extracted.value.shape_hyperlink = Some(S_mailto \o U_user_at_example)
    /\ extracted.value.paragraphs[1].formatted_runs[1].hyperlink =
           Some(S_mailto \o U_user_at_example)

-----------------------------------------------------------------------------
(* The MarkdownConverter (powerpoint/markdown_converter.py).  Markdown is  *)
(* a str: a sequence of one-character strings, "\n" the line break.        *)

MaxRuns == 2        \* formatted runs of a rendered paragraph

\* the truth value of a str that may be None
Truthy(option) == option # None /\ option.value # <<>>

HasText(run) == run.text # <<>>

\* [run for run in runs if run.get("text")]
text_runs(runs) == SelectSeq(runs, HasText)

all_bold(runs) == \A i \in 1..Len(text_runs(runs)) : text_runs(runs)[i].bold
all_italic(runs) == \A i \in 1..Len(text_runs(runs)) : text_runs(runs)[i].italic
all_have_hyperlinks(runs) ==
    \A i \in 1..Len(text_runs(runs)) : Truthy(text_runs(runs)[i].hyperlink)

all_same_hyperlink(runs) ==
    IF all_have_hyperlinks(runs)
    THEN Cardinality({text_runs(runs)[i].hyperlink : i \in 1..Len(text_runs(runs))}) = 1
    ELSE FALSE

\* f"[{text}]({url})"
Link(text, url) == <<"[">> \o text \o <<"]", "(">> \o url \o <<")">>

\* one run of the per-run loop: its own emphasis, then its own link
FormattedPart(run) ==
    IF Truthy(run.hyperlink)
    THEN Link(IF run.bold /\ run.italic THEN <<"*", "*", "*">> \o run.text \o <<"*", "*", "*">>
              ELSE IF run.bold THEN <<"*", "*">> \o run.text \o <<"*", "*">>
              ELSE IF run.italic THEN <<"*">> \o run.text \o <<"*">>
              ELSE run.text,
              run.hyperlink.value)
    ELSE IF run.bold /\ run.italic THEN <<"*", "*", "*">> \o run.text \o <<"*", "*", "*">>
    ELSE IF run.bold THEN <<"*", "*">> \o run.text \o <<"*", "*">>
    ELSE IF run.italic THEN <<"*">> \o run.text \o <<"*">>
    ELSE run.text

\* the per-run loop: runs without text are skipped
RECURSIVE formatted_parts(_)
formatted_parts(runs) ==
    IF runs = <<>> THEN <<>>
    ELSE IF Head(runs).text = <<>> THEN formatted_parts(Tail(runs))
    ELSE <<FormattedPart(Head(runs))>> \o formatted_parts(Tail(runs))

\* a rendering that never merges: every run wrapped on its own
BuildPerRun(runs, clean_text) ==
    IF runs = <<>> \/ text_runs(runs) = <<>> THEN clean_text ELSE Join(formatted_parts(runs))

\* MarkdownConverter._build_formatted_text_from_runs
_build_formatted_text_from_runs(runs, clean_text) ==
    IF runs = <<>> THEN clean_text
    ELSE IF text_runs(runs) = <<>> THEN clean_text
    ELSE IF all_bold(runs) /\ all_italic(runs) /\ ~all_same_hyperlink(runs)
    THEN <<"*", "*", "*">> \o clean_text \o <<"*", "*", "*">>
    ELSE IF all_bold(runs) /\ ~all_same_hyperlink(runs)
    THEN <<"*", "*">> \o clean_text \o <<"*", "*">>
    ELSE IF all_italic(runs) /\ ~all_same_hyperlink(runs)
    THEN <<"*">> \o clean_text \o <<"*">>
    ELSE IF all_same_hyperlink(runs)
    THEN IF all_bold(runs) /\ all_italic(runs)
         THEN Link(<<"*", "*", "*">> \o clean_text \o <<"*", "*", "*">>,
                   text_runs(runs)[1].hyperlink.value)
         ELSE IF all_bold(runs)
         THEN Link(<<"*", "*">> \o clean_text \o <<"*", "*">>, text_runs(runs)[1].hyperlink.value)
         ELSE IF all_italic(runs)
         THEN Link(<<"*">> \o clean_text \o <<"*">>, text_runs(runs)[1].hyperlink.value)
         ELSE Link(clean_text, text_runs(runs)[1].hyperlink.value)
    ELSE Join(formatted_parts(runs))

\* the literals of the converter
IMAGE_TARGET == <<"]", "(", "i", "m", "a", "g", "e", ")">>
CHART_OPEN == <<"*", "*", "C", "h", "a", "r", "t", ":", " ">>
UNTITLED_CHART == <<"U", "n", "t", "i", "t", "l", "e", "d", " ", "C", "h", "a", "r", "t">>
CHART_TYPE_OPEN == <<"*", "C", "h", "a", "r", "t", " ", "T", "y", "p", "e", ":", " ">>
UNKNOWN == <<"u", "n", "k", "n", "o", "w", "n">>
DATA_LINE == <<"D", "a", "t", "a", ":", "\n">>
SHAPE_OPEN == <<"[", "S", "h", "a", "p", "e", ":", " ">>
MARKER_OPEN == <<"\n", "<", "!", "-", "-", " ", "S", "l", "i", "d", "e", " ">>
MARKER_CLOSE == <<" ", "-", "-", ">", "\n">>

HeadingTextLimit == 30   \* len(clean_text) < 30: a level-2 heading
ChartValuesShown == 5    \* values[:5]

\* str(n) of a natural number
RECURSIVE Str(_)
Str(n) == IF n < 10 THEN <<Digits[n + 1]>> ELSE Str(n \div 10) \o <<Digits[(n % 10) + 1]>>

\* "  " * level
RECURSIVE Indent(_)
Indent(level) == IF level <= 0 THEN <<>> ELSE <<" ", " ">> \o Indent(level - 1)

\* MarkdownConverter._convert_paragraph_to_markdown
_convert_paragraph_to_markdown(para) ==
    IF Get(para, "clean_text", <<>>) = <<>> THEN <<>>
    ELSE IF Get(Get(para, "hints", <<>>), "is_bullet", FALSE)
    THEN Indent(IF Get(Get(para, "hints", <<>>), "bullet_level", 0) > 0
                THEN Get(Get(para, "hints", <<>>), "bullet_level", 0) ELSE 0)
         \o <<"-", " ">> \o _build_formatted_text_from_runs(para.formatted_runs, para.clean_text)
    ELSE IF Get(Get(para, "hints", <<>>), "is_numbered", FALSE)
    THEN <<"1", ".", " ">> \o _build_formatted_text_from_runs(para.formatted_runs, para.clean_text)
    ELSE IF Get(Get(para, "hints", <<>>), "likely_heading", FALSE)
    THEN IF Get(Get(para, "hints", <<>>), "all_caps", FALSE) \/ Len(para.clean_text) < HeadingTextLimit
         THEN <<"#", "#", " ">>
              \o _build_formatted_text_from_runs(para.formatted_runs, para.clean_text)
         ELSE <<"#", "#", "#", " ">>
              \o _build_formatted_text_from_runs(para.formatted_runs, para.clean_text)
    ELSE _build_formatted_text_from_runs(para.formatted_runs, para.clean_text)

\* the lines of a text block: headings for a title or a subtitle, else the
\* paragraph rule; a paragraph without line is left out
RECURSIVE TextLines(_, _)
TextLines(semantic_role, paragraphs) ==
    IF paragraphs = <<>> THEN <<>>
    ELSE IF semantic_role = "title"
    THEN IF Get(Head(paragraphs), "clean_text", <<>>) # <<>>
         THEN <<<<"#", " ">> \o _build_formatted_text_from_runs(Head(paragraphs).formatted_runs,
                                                                 Head(paragraphs).clean_text)>>
              \o TextLines(semantic_role, Tail(paragraphs))
         ELSE TextLines(semantic_role, Tail(paragraphs))
    ELSE IF semantic_role = "subtitle"
    THEN IF Get(Head(paragraphs), "clean_text", <<>>) # <<>>
         THEN <<<<"#", "#", " ">> \o _build_formatted_text_from_runs(Head(paragraphs).formatted_runs,
                                                                      Head(paragraphs).clean_text)>>
              \o TextLines(semantic_role, Tail(paragraphs))
         ELSE TextLines(semantic_role, Tail(paragraphs))
    ELSE IF _convert_paragraph_to_markdown(Head(paragraphs)) # <<>>
    THEN <<_convert_paragraph_to_markdown(Head(paragraphs))>>
         \o TextLines(semantic_role, Tail(paragraphs))
    ELSE TextLines(semantic_role, Tail(paragraphs))

\* the link around a rendering that is not empty, for a truthy hyperlink
Hyperlinked(result, hyperlink) ==
    IF Truthy(hyperlink) /\ result # <<>> THEN Link(result, hyperlink.value) ELSE result

\* MarkdownConverter._convert_text_block_to_markdown
_convert_text_block_to_markdown(block) ==
    Hyperlinked(Join(JoinWith(<<"\n">>, TextLines(Get(block, "semantic_role", "other"),
                                                  block.paragraphs))),
                Get(block, "shape_hyperlink", None))

\* cell.replace("|", "\\|")
RECURSIVE Escaped(_)
Escaped(cell) ==
    IF cell = <<>> THEN <<>>
    ELSE IF Head(cell) = "|" THEN <<"\\", "|">> \o Escaped(Tail(cell))
    ELSE <<Head(cell)>> \o Escaped(Tail(cell))

\* "| " + " | ".join(cells) + " |\n"
TableLine(cells) == <<"|", " ">> \o Join(JoinWith(<<" ", "|", " ">>, cells)) \o <<" ", "|", "\n">>

\* a table with a separator under every row
RECURSIVE TableRowsSeparated(_, _)
TableRowsSeparated(rows, i) ==
    IF i > Len(rows) THEN <<>>
    ELSE TableLine([c \in 1..Len(rows[i]) |-> Escaped(rows[i][c])])
         \o TableLine([c \in 1..Len(rows[i]) |-> <<"-", "-", "-">>])
         \o TableRowsSeparated(rows, i + 1)

\* the rows from row i on: the separator after the first one only
RECURSIVE TableRows(_, _)
TableRows(rows, i) ==
    IF i > Len(rows) THEN <<>>
    ELSE TableLine([c \in 1..Len(rows[i]) |-> Escaped(rows[i][c])])
         \o (IF i = 1 THEN TableLine([c \in 1..Len(rows[i]) |-> <<"-", "-", "-">>]) ELSE <<>>)
         \o TableRows(rows, i + 1)

\* MarkdownConverter._convert_table_to_markdown
_convert_table_to_markdown(block) ==
    IF block.data = <<>> THEN <<>> ELSE TableRows(block.data, 1)

\* MarkdownConverter._convert_image_to_markdown
_convert_image_to_markdown(block) ==
    IF Truthy(Get(block, "hyperlink", None))
    THEN Link(<<"!", "[">> \o block.alt_text \o IMAGE_TARGET, block.hyperlink.value)
    ELSE <<"!", "[">> \o block.alt_text \o IMAGE_TARGET

\* ", ".join(map(str, values[:5])), and "..." after more than five values
SeriesValues(values) ==
    Join(JoinWith(<<",", " ">>,
                  [v \in 1..(IF Len(values) < ChartValuesShown THEN Len(values)
                             ELSE ChartValuesShown) |-> Str(values[v])]))
    \o (IF Len(values) > ChartValuesShown THEN <<".", ".", ".">> ELSE <<>>)

\* the "Data:" lines of a chart: one per series that has a name
RECURSIVE SeriesLines(_)
SeriesLines(series) ==
    IF series = <<>> THEN <<>>
    ELSE IF Get(Head(series), "name", <<>>) # <<>>
    THEN <<"-", " ">> \o Head(series).name \o <<":", " ">>
         \o (IF Get(Head(series), "values", <<>>) # <<>>
             THEN SeriesValues(Head(series).values) ELSE <<>>)
         \o <<"\n">> \o SeriesLines(Tail(series))
    ELSE SeriesLines(Tail(series))

\* MarkdownConverter._convert_chart_to_markdown
_convert_chart_to_markdown(block) ==
    Hyperlinked(CHART_OPEN \o Get(block, "title", UNTITLED_CHART) \o <<"*", "*", "\n">>
                \o CHART_TYPE_OPEN \o Get(block, "chart_type", UNKNOWN) \o <<"*", "\n", "\n">>
                \o (IF Get(block, "categories", <<>>) # <<>> /\ Get(block, "series", <<>>) # <<>>
                    THEN DATA_LINE \o SeriesLines(block.series) ELSE <<>>),
                Get(block, "hyperlink", None))

\* one child of a group: its kind's rule, a placeholder for a "shape",
\* nothing (None) for any other kind
GroupChild(extracted_block) ==
    IF extracted_block.type = "text" THEN _convert_text_block_to_markdown(extracted_block)
    ELSE IF extracted_block.type = "image" THEN _convert_image_to_markdown(extracted_block)
    ELSE IF extracted_block.type = "table" THEN _convert_table_to_markdown(extracted_block)
    ELSE IF extracted_block.type = "chart" THEN _convert_chart_to_markdown(extracted_block)
    ELSE IF extracted_block.type = "shape"
    THEN SHAPE_OPEN \o Get(extracted_block, "shape_subtype", UNKNOWN) \o <<"]">>
    ELSE <<>>

\* the parts of the children that have one
RECURSIVE content_parts(_)
content_parts(extracted_blocks) ==
    IF extracted_blocks = <<>> THEN <<>>
    ELSE IF GroupChild(Head(extracted_blocks)) # <<>>
    THEN <<GroupChild(Head(extracted_blocks))>> \o content_parts(Tail(extracted_blocks))
    ELSE content_parts(Tail(extracted_blocks))

\* MarkdownConverter._convert_group_to_markdown
_convert_group_to_markdown(block) ==
    IF Get(block, "extracted_blocks", <<>>) = <<>> THEN <<>>
    ELSE Hyperlinked(Join(JoinWith(<<"\n", "\n">>, content_parts(block.extracted_blocks))),
                     Get(block, "hyperlink", None))

\* the markdown of one block of a slide; empty for a type without converter
block_markdown(block) ==
    IF block.type = "text" THEN _convert_text_block_to_markdown(block)
    ELSE IF block.type = "table" THEN _convert_table_to_markdown(block)
    ELSE IF block.type = "image" THEN _convert_image_to_markdown(block)
    ELSE IF block.type = "chart" THEN _convert_chart_to_markdown(block)
    ELSE IF block.type = "group" THEN _convert_group_to_markdown(block)
    ELSE <<>>

\* f"\n<!-- Slide {slide_number} -->\n"
SlideMarker(slide_number) == MARKER_OPEN \o Str(slide_number) \o MARKER_CLOSE

\* the parts of the blocks of a slide that have markdown
RECURSIVE BlockParts(_)
BlockParts(content_blocks) ==
    IF content_blocks = <<>> THEN <<>>
    ELSE IF block_markdown(Head(content_blocks)) # <<>>
    THEN <<block_markdown(Head(content_blocks))>> \o BlockParts(Tail(content_blocks))
    ELSE BlockParts(Tail(content_blocks))

\* parts in which a slide without markdown of its own has no marker
RECURSIVE SlidePartsOfRendered(_)
SlidePartsOfRendered(slides) ==
    IF slides = <<>> THEN <<>>
    ELSE (IF BlockParts(Head(slides).content_blocks) = <<>> THEN <<>>
          ELSE <<SlideMarker(Head(slides).slide_number)>>
               \o BlockParts(Head(slides).content_blocks))
         \o SlidePartsOfRendered(Tail(slides))

\* markdown_parts after the loop over the slides
RECURSIVE SlideParts(_)
SlideParts(slides) ==
    IF slides = <<>> THEN <<>>
    ELSE <<SlideMarker(Head(slides).slide_number)>> \o BlockParts(Head(slides).content_blocks)
         \o SlideParts(Tail(slides))

\* MarkdownConverter.convert_structured_data_to_markdown
convert_structured_data_to_markdown(structured) ==
    Join(JoinWith(<<"\n", "\n">>, SlideParts(structured.slides)))

-----------------------------------------------------------------------------
(* The converter as a state machine: a structured record is handed over;   *)
(* the record as a whole, one of its blocks or one paragraph of a text     *)
(* block is rendered.                                                      *)

MaxRows == 2        \* rows of a table
MaxCols == 2        \* cells of a row
MaxChildren == 2    \* blocks extracted from a group
MaxSlides == 2      \* slides of a rendered record

L_u == <<"u">>
L_v == <<"v">>
T_29 == [i \in 1..29 |-> "a"]
T_30 == [i \in 1..30 |-> "a"]

\* the formatted runs of a paragraph: a run with text in every formatting,
\* a run without text
RunChoices ==
    [text : {<<"a">>}, bold : BOOLEAN, italic : BOOLEAN,
     hyperlink : {None, Some(L_u), Some(L_v)}]
    \cup {[text |-> <<>>, bold |-> FALSE, italic |-> FALSE, hyperlink |-> None],
          [text |-> <<>>, bold |-> TRUE, italic |-> FALSE, hyperlink |-> Some(L_v)]}

RunLists == UNION {[1..n -> RunChoices] : n \in 0..MaxRuns}

\* the hints process_paragraph gives a paragraph that is no bullet
PlainHints ==
    [has_powerpoint_level |-> FALSE, powerpoint_level |-> None, bullet_level |-> -1,
     is_bullet |-> FALSE, is_numbered |-> FALSE, short_text |-> TRUE, all_caps |-> FALSE]

\* hints in every combination the paragraph rule looks at
HintChoices ==
    {[is_bullet |-> b, bullet_level |-> l, is_numbered |-> n, all_caps |-> c]
        : b \in BOOLEAN, l \in -1..MaxLevel, n \in BOOLEAN, c \in BOOLEAN}
    \cup {[is_bullet |-> b, bullet_level |-> l, is_numbered |-> n, all_caps |-> c,
           likely_heading |-> TRUE]
        : b \in BOOLEAN, l \in -1..MaxLevel, n \in BOOLEAN, c \in BOOLEAN}
    \cup {<<>>}

PlainRun(text) == [text |-> text, bold |-> FALSE, italic |-> FALSE, hyperlink |-> None]

\* paragraph records: every run list under plain hints, one plain run under
\* every hint, and the records the TextProcessor gives a paragraph that is
\* only a bullet glyph and a shape whose text is one blank
RunParagraphs ==
    {[raw_text |-> c, clean_text |-> c, formatted_runs |-> runs, hints |-> PlainHints]
        : c \in {<<"a", "a">>, <<"c">>}, runs \in RunLists}

HintParagraphs ==
    {[raw_text |-> c, clean_text |-> c, formatted_runs |-> <<PlainRun(c)>>, hints |-> h]
        : c \in {<<"a">>, T_29, T_30}, h \in HintChoices}
    \cup {process_paragraph(Paragraph(<<"U+2022">>, 1, "buChar", None, TRUE, "ok")),
          PlainTextBlock(<<" ">>, [click_address |-> <<>>]).paragraphs[1]}

TextBlocks ==
    {[type |-> "text", paragraphs |-> <<p>>, shape_hyperlink |-> None,
      semantic_role |-> "content"] : p \in RunParagraphs}
    \cup {[type |-> "text", paragraphs |-> ps, shape_hyperlink |-> h, semantic_role |-> r]
            : ps \in {<<p>> : p \in HintParagraphs} \cup {<<p, p>> : p \in HintParagraphs},
              h \in {None, Some(L_u)}, r \in {"title", "subtitle", "content"}}
    \cup {[type |-> "text", paragraphs |-> <<p>>, shape_hyperlink |-> None]
            : p \in HintParagraphs}

TableRowChoices == UNION {[1..n -> {<<"a">>, <<"|">>, <<"a", "|", "|">>}] : n \in 0..MaxCols}

TableBlocks ==
    {[type |-> "table", data |-> rows]
        : rows \in UNION {[1..n -> TableRowChoices] : n \in 0..MaxRows}}

ImageBlocks ==
    {[type |-> "image", alt_text |-> a, hyperlink |-> h]
        : a \in {<<>>, <<"a">>}, h \in {None, Some(L_u)}}
    \cup {[type |-> "image", alt_text |-> <<"a">>]}

SeriesChoices ==
    {<<>>,
     <<[name |-> <<"s">>, values |-> <<1, 2, 3, 4, 5>>]>>,
     <<[name |-> <<"s">>, values |-> <<1, 2, 3, 4, 5, 16>>], [name |-> <<>>, values |-> <<7>>],
       [name |-> <<"t">>, values |-> <<>>]>>}

ChartBlocks ==
    {[type |-> "chart", title |-> <<"T">>, chart_type |-> <<"P", "I", "E">>,
      categories |-> c, series |-> s, hyperlink |-> h]
        : c \in {<<>>, <<<<"k">>>>}, s \in SeriesChoices, h \in {None, Some(L_u)}}
    \cup {[type |-> "chart"]}

\* what a group can hold: the four kinds with a converter, shapes with and
\* without subtype, a group in the group, a connector
ChildChoices ==
    {[type |-> "text", paragraphs |-> <<[raw_text |-> <<"a">>, clean_text |-> <<"a">>,
                                         formatted_runs |-> <<PlainRun(<<"a">>)>>,
                                         hints |-> PlainHints]>>,
      shape_hyperlink |-> None, semantic_role |-> "title"],
     [type |-> "text", paragraphs |-> <<[raw_text |-> <<" ">>, clean_text |-> <<>>,
                                         formatted_runs |-> <<PlainRun(<<" ">>)>>,
                                         hints |-> PlainHints]>>,
      shape_hyperlink |-> None, semantic_role |-> "other"],
     [type |-> "image", alt_text |-> <<"a">>, hyperlink |-> None],
     [type |-> "table", data |-> <<<<<<"a">>>>>>],
     [type |-> "table", data |-> <<>>],
     [type |-> "chart", title |-> <<"T">>],
     [type |-> "shape", shape_subtype |-> <<"o", "v", "a", "l">>],
     [type |-> "shape"],
     [type |-> "group", shape_subtype |-> <<"g", "r", "o", "u", "p">>,
      extracted_blocks |-> <<[type |-> "image", alt_text |-> <<"a">>, hyperlink |-> None]>>],
     [type |-> "line", shape_subtype |-> <<"l", "i", "n", "e">>]}

GroupBlocks ==
    {[type |-> "group", extracted_blocks |-> children, hyperlink |-> h]
        : children \in UNION {[1..n -> ChildChoices] : n \in 0..MaxChildren},
          h \in {None, Some(L_u)}}
    \cup {[type |-> "group"]}

\* the blocks of a slide of a record of several slides
SlideContents ==
    {<<>>,
     <<[type |-> "text", paragraphs |-> <<[raw_text |-> <<" ">>, clean_text |-> <<>>,
                                           formatted_runs |-> <<PlainRun(<<" ">>)>>,
                                           hints |-> PlainHints]>>,
        shape_hyperlink |-> None, semantic_role |-> "content"]>>,
     <<[type |-> "shape", shape_subtype |-> <<"o", "v", "a", "l">>]>>,
     <<[type |-> "image", alt_text |-> <<"a">>, hyperlink |-> None]>>,
     <<[type |-> "text", paragraphs |-> <<[raw_text |-> <<"a">>, clean_text |-> <<"a">>,
                                           formatted_runs |-> <<PlainRun(<<"a">>)>>,
                                           hints |-> PlainHints]>>,
        shape_hyperlink |-> None, semantic_role |-> "title"],
       [type |-> "group", extracted_blocks |-> <<>>],
       [type |-> "table", data |-> <<<<<<"a">>, <<"|">>>>>>]>>}

\* the records handed to the converter: slides numbered from 1, as
\* extract_presentation_data numbers them
StructuredRecords ==
    {[slides |-> <<[slide_number |-> 1, content_blocks |-> <<b>>]>>]
        : b \in TextBlocks \cup TableBlocks \cup ImageBlocks \cup ChartBlocks \cup GroupBlocks}
    \cup {[slides |-> [i \in 1..Len(contents) |->
                           [slide_number |-> i, content_blocks |-> contents[i]]]]
            : contents \in UNION {[1..n -> SlideContents] : n \in 0..MaxSlides}}

InitRender ==
    /\ data \in StructuredRecords
    /\ markdown = [op |-> "none"]
    /\ accessibility_order = TRUE
    /\ last_extraction_method = "not_extracted"
    /\ shape_classifications = <<>>
    /\ deck = <<>>
    /\ call = NoCall
    /\ text_frame = Idle
    /\ extracted = Idle
    /\ hash_order = <<>>
    /\ document = Idle
    /\ conversion = Idle
    /\ previous = Idle
    /\ processor = Idle

\* MarkdownConverter.convert_structured_data_to_markdown(data)
ConvertStructuredDataToMarkdown ==
    /\ markdown' = [op |-> "convert_structured_data_to_markdown",
                    value |-> convert_structured_data_to_markdown(data)]
    /\ UNCHANGED <<data, orderVars, textVars, convertVars>>

\* the converter of block b of slide s, as the loop over the blocks calls it
ConvertBlock(s, b) ==
    /\ markdown' = [op |-> "block_markdown", slide |-> s, block |-> b,
                    value |-> block_markdown(data.slides[s].content_blocks[b])]
    /\ UNCHANGED <<data, orderVars, textVars, convertVars>>

\* MarkdownConverter._convert_paragraph_to_markdown on paragraph p of text block b
ConvertParagraph(s, b, p) ==
    /\ data.slides[s].content_blocks[b].type = "text"
    /\ p \in 1..Len(data.slides[s].content_blocks[b].paragraphs)
    /\ markdown' = [op |-> "_convert_paragraph_to_markdown", slide |-> s, block |-> b,
                    para |-> p,
                    value |-> _convert_paragraph_to_markdown(
                                  data.slides[s].content_blocks[b].paragraphs[p])]
    /\ UNCHANGED <<data, orderVars, textVars, convertVars>>

\* MarkdownConverter._build_formatted_text_from_runs on paragraph p of text block b
BuildFormattedText(s, b, p) ==
    /\ data.slides[s].content_blocks[b].type = "text"
    /\ p \in 1..Len(data.slides[s].content_blocks[b].paragraphs)
    /\ markdown' = [op |-> "_build_formatted_text_from_runs", slide |-> s, block |-> b,
                    para |-> p,
                    value |-> _build_formatted_text_from_runs(
                                  data.slides[s].content_blocks[b].paragraphs[p].formatted_runs,
                                  data.slides[s].content_blocks[b].paragraphs[p].clean_text)]
    /\ UNCHANGED <<data, orderVars, textVars, convertVars>>

NextRender ==
    \/ ConvertStructuredDataToMarkdown
    \/ \E s \in 1..Len(data.slides) : \E b \in 1..Len(data.slides[s].content_blocks) :
           ConvertBlock(s, b)
    \/ \E s \in 1..Len(data.slides) : \E b \in 1..Len(data.slides[s].content_blocks) :
           \E p \in 1..2 : ConvertParagraph(s, b, p)
    \/ \E s \in 1..Len(data.slides) : \E b \in 1..Len(data.slides[s].content_blocks) :
           \E p \in 1..2 : BuildFormattedText(s, b, p)

SpecRender == InitRender /\ [][NextRender]_vars

\* the block, the paragraph and the runs the last call was made on
RenderedBlock == data.slides[markdown.slide].content_blocks[markdown.block]
RenderedPara == RenderedBlock.paragraphs[markdown.para]
RenderedRuns == text_runs(RenderedPara.formatted_runs)

\* text in its emphasis markers
Emphasis(text, bold, italic) ==
    IF bold /\ italic THEN <<"*", "*", "*">> \o text \o <<"*", "*", "*">>
    ELSE IF bold THEN <<"*", "*">> \o text \o <<"*", "*">>
    ELSE IF italic THEN <<"*">> \o text \o <<"*">>
    ELSE text

\* the runs with text agree in bold and in italic
SameEmphasis ==
    \A i, j \in 1..Len(RenderedRuns) :
        /\ RenderedRuns[i].bold = RenderedRuns[j].bold
        /\ RenderedRuns[i].italic = RenderedRuns[j].italic

NoHyperlink == \A i \in 1..Len(RenderedRuns) : ~Truthy(RenderedRuns[i].hyperlink)

OneHyperlink ==
    \A i \in 1..Len(RenderedRuns) :
        Truthy(RenderedRuns[i].hyperlink) /\ RenderedRuns[i].hyperlink = RenderedRuns[1].hyperlink

\* C12: when the runs with text agree in bold and italic, the whole
\* clean_text is wrapped once: without hyperlink, bold and italic gives
\* ***clean_text***, bold only **clean_text**, italic only *clean_text*; with
\* one hyperlink shared by all of them, the emphasis is applied first and the
\* result is one link to that URL.
C12_UniformRunsWrappedOnce ==
    (markdown.op = "_build_formatted_text_from_runs" /\ RenderedRuns # <<>> /\ SameEmphasis) =>
        /\ (NoHyperlink /\ (RenderedRuns[1].bold \/ RenderedRuns[1].italic)) =>
               markdown.value = Emphasis(RenderedPara.clean_text, RenderedRuns[1].bold,
                                         RenderedRuns[1].italic)
        /\ OneHyperlink =>
               markdown.value =
                   <<"[">> \o Emphasis(RenderedPara.clean_text, RenderedRuns[1].bold,
                                       RenderedRuns[1].italic)
                   \o <<"]", "(">> \o RenderedRuns[1].hyperlink.value \o <<")">>

C12_Witness ==
    /\ markdown.op = "_build_formatted_text_from_runs"
    /\ Len(RenderedRuns) = 2
    /\ \A i \in 1..2 : RenderedRuns[i].bold /\ ~RenderedRuns[i].italic
    /\ OneHyperlink
    /\ RenderedPara.clean_text = <<"a", "a">>
    /\ markdown.value = <<"[", "*", "*", "a", "a", "*", "*", "]", "(", "u", ")">>

\* C13: when the runs with text disagree in bold, italic or hyperlink, the
\* output is the concatenation of each run in its own emphasis and its own
\* link, so that every hyperlink of a run with text is in the output.
C13_MixedRunsRenderedPerRun ==
    (/\ markdown.op = "_build_formatted_text_from_runs"
     /\ RenderedRuns # <<>>
     /\ ~(SameEmphasis /\ (NoHyperlink \/ OneHyperlink))) =>
        /\ markdown.value =
               Join([i \in 1..Len(RenderedRuns) |->
                        IF Truthy(RenderedRuns[i].hyperlink)
                        THEN <<"[">> \o Emphasis(RenderedRuns[i].text, RenderedRuns[i].bold,
                                                 RenderedRuns[i].italic)
                             \o <<"]", "(">> \o RenderedRuns[i].hyperlink.value \o <<")">>
                        ELSE Emphasis(RenderedRuns[i].text, RenderedRuns[i].bold,
                                      RenderedRuns[i].italic)])
        /\ \A i \in 1..Len(RenderedRuns) :
               Truthy(RenderedRuns[i].hyperlink) =>
                   Contains(markdown.value,
                            <<"]", "(">> \o RenderedRuns[i].hyperlink.value \o <<")">>)

\* the lines of a text, each without its line break
RECURSIVE LinesOf(_, _)
LinesOf(text, line) ==
    IF text = <<>> THEN (IF line = <<>> THEN <<>> ELSE <<line>>)
    ELSE IF Head(text) = "\n" THEN <<line>> \o LinesOf(Tail(text), <<>>)
    ELSE LinesOf(Tail(text), Append(line, Head(text)))

\* a pipe-delimited line of cells
PipeLine(cells) ==
    <<"|">> \o Join([c \in 1..Len(cells) |->
                        <<" ">> \o cells[c] \o (IF c < Len(cells) THEN <<" ", "|">> ELSE <<>>)])
    \o (IF cells = <<>> THEN <<" ">> ELSE <<>>) \o <<" ", "|">>

\* a cell with a backslash before every "|"
PipeEscaped(cell) ==
    Join([i \in 1..Len(cell) |-> IF cell[i] = "|" THEN <<"\\", "|">> ELSE <<cell[i]>>])

\* C14: a table block that is not empty renders as one pipe-delimited line
\* per row in row order, every "|" of a cell escaped, with exactly one
\* separator line, right after the first row, of one dash cell per column of
\* the first row; an empty table renders as empty text.
C14_TableRendering ==
    (markdown.op = "block_markdown" /\ RenderedBlock.type = "table") =>
        IF RenderedBlock.data = <<>> THEN markdown.value = <<>>
        ELSE /\ markdown.value[Len(markdown.value)] = "\n"
             /\ Len(LinesOf(markdown.value, <<>>)) = Len(RenderedBlock.data) + 1
             /\ \A i \in 1..Len(RenderedBlock.data) :
                    LinesOf(markdown.value, <<>>)[IF i = 1 THEN 1 ELSE i + 1] =
                        PipeLine([c \in 1..Len(RenderedBlock.data[i]) |->
                                     PipeEscaped(RenderedBlock.data[i][c])])
             /\ LinesOf(markdown.value, <<>>)[2] =
                    PipeLine([c \in 1..Len(RenderedBlock.data[1]) |-> <<"-", "-", "-">>])

C14_Witness ==
    /\ markdown.op = "block_markdown"
    /\ RenderedBlock.type = "table"
    /\ RenderedBlock.data = <<<<<<"a">>, <<"|">>>>, <<<<"a", "|", "|">>>>>>
    /\ LinesOf(markdown.value, <<>>) =
           <<<<"|", " ", "a", " ", "|", " ", "\\", "|", " ", "|">>,
             <<"|", " ", "-", "-", "-", " ", "|", " ", "-", "-", "-", " ", "|">>,
             <<"|", " ", "a", "\\", "|", "\\", "|", " ", "|">>>>

\* how often a text occurs in a text
Occurrences(text, part) ==
    Cardinality({i \in 1..(Len(text) - Len(part) + 1) :
                    SubSeq(text, i, i + Len(part) - 1) = part})

\* the comment that marks slide n
MarkerOf(n) ==
    <<"<", "!", "-", "-", " ", "S", "l", "i", "d", "e", " ">> \o Str(n) \o <<" ", "-", "-", ">">>

\* the renderings of the blocks of slide s that are not empty, in block order
RenderedBlocksOf(s) ==
    SelectSeq([b \in 1..Len(data.slides[s].content_blocks) |->
                  block_markdown(data.slides[s].content_blocks[b])],
              LAMBDA part : part # <<>>)

\* the marker of slide s and the renderings of its blocks, a blank line
\* before each of them
SlideText(s) ==
    <<"\n">> \o MarkerOf(s) \o <<"\n">>
    \o Join([b \in 1..Len(RenderedBlocksOf(s)) |-> <<"\n", "\n">> \o RenderedBlocksOf(s)[b]])

\* C15: in the markdown of a record every slide, one without rendered block
\* included, has exactly one marker with its 1-based number; the markers are
\* in slide order, the rendered blocks of a slide follow its marker in block
\* order before the next marker, and the parts are separated by a blank line.
C15_SlideMarkers ==
    markdown.op = "convert_structured_data_to_markdown" =>
        /\ \A s \in 1..Len(data.slides) : Occurrences(markdown.value, MarkerOf(s)) = 1
        /\ Occurrences(markdown.value, <<"<", "!", "-", "-", " ", "S", "l", "i", "d", "e", " ">>)
               = Len(data.slides)
        /\ markdown.value =
               Join([s \in 1..Len(data.slides) |->
                        (IF s > 1 THEN <<"\n", "\n">> ELSE <<>>) \o SlideText(s)])

C15_Witness ==
    /\ markdown.op = "convert_structured_data_to_markdown"
    /\ Len(data.slides) = 2
    /\ data.slides[1].content_blocks # <<>>
    /\ RenderedBlocksOf(1) = <<>>
    /\ Len(data.slides[2].content_blocks) = 3
    /\ Len(RenderedBlocksOf(2)) = 2
    /\ Occurrences(markdown.value, MarkerOf(1)) = 1
    /\ Occurrences(markdown.value, MarkerOf(2) \o <<"\n", "\n", "\n", "#", " ", "a", "\n", "\n", "|">>) = 1

\* the line of a paragraph under a heading prefix
HeadingLine(prefix, para) ==
    prefix \o _build_formatted_text_from_runs(para.formatted_runs, para.clean_text)

\* lines joined by line breaks
JoinedLines(lines) ==
    Join([i \in 1..Len(lines) |-> (IF i > 1 THEN <<"\n">> ELSE <<>>) \o lines[i]])

\* C16: a text block with role title renders every paragraph as a line
\* "# " + formatted text, one with role subtitle as "## " + formatted text,
\* whatever the hints of the paragraph; with a shape hyperlink, the whole
\* output, when not empty, is one link to that URL.
C16_HeadingBlocks ==
    (/\ markdown.op = "block_markdown"
     /\ RenderedBlock.type = "text"
     /\ Get(RenderedBlock, "semantic_role", "other") \in {"title", "subtitle"}) =>
        markdown.value =
            Hyperlinked(JoinedLines([p \in 1..Len(RenderedBlock.paragraphs) |->
                                        HeadingLine(IF RenderedBlock.semantic_role = "title"
                                                    THEN <<"#", " ">> ELSE <<"#", "#", " ">>,
                                                    RenderedBlock.paragraphs[p])]),
                        RenderedBlock.shape_hyperlink)

\* the hint of a paragraph, with the default of the paragraph rule
Hint(para, name, default) == Get(Get(para, "hints", <<>>), name, default)

\* the line the first matching rule gives a paragraph
RuleLine(para) ==
    IF Hint(para, "is_bullet", FALSE)
    THEN [i \in 1..(2 * (IF Hint(para, "bullet_level", 0) < 0 THEN 0
                         ELSE Hint(para, "bullet_level", 0))) |-> " "]
         \o HeadingLine(<<"-", " ">>, para)
    ELSE IF Hint(para, "is_numbered", FALSE) THEN HeadingLine(<<"1", ".", " ">>, para)
    ELSE IF Hint(para, "likely_heading", FALSE)
    THEN (IF Hint(para, "all_caps", FALSE) \/ Len(para.clean_text) < 30
          THEN HeadingLine(<<"#", "#", " ">>, para)
          ELSE HeadingLine(<<"#", "#", "#", " ">>, para))
    ELSE HeadingLine(<<>>, para)

\* C17: in a text block whose role is neither title nor subtitle, each
\* paragraph is rendered by the first matching rule: a bullet as "- " + text
\* after two spaces per level (a negative level as 0); else a numbered one
\* with the literal "1. ", also in consecutive paragraphs; else a heading-like
\* one as "## " (all-caps or shorter than 30 characters) or "### "; else the
\* plain formatted line.
C17_ParagraphRules ==
    /\ (/\ markdown.op = "_convert_paragraph_to_markdown"
        /\ Get(RenderedBlock, "semantic_role", "other") \notin {"title", "subtitle"}) =>
           markdown.value = RuleLine(RenderedPara)
    /\ (/\ markdown.op = "block_markdown"
        /\ RenderedBlock.type = "text"
        /\ Get(RenderedBlock, "semantic_role", "other") \notin {"title", "subtitle"}) =>
           markdown.value =
               Hyperlinked(JoinedLines([p \in 1..Len(RenderedBlock.paragraphs) |->
                                           RuleLine(RenderedBlock.paragraphs[p])]),
                           RenderedBlock.shape_hyperlink)

\* the rendering of a child of a group: its kind's own rule for a text, an
\* image, a table or a chart, the placeholder with its subtype for any other
ChildRendering(child) ==
    IF child.type = "text" THEN _convert_text_block_to_markdown(child)
    ELSE IF child.type = "image" THEN _convert_image_to_markdown(child)
    ELSE IF child.type = "table" THEN _convert_table_to_markdown(child)
    ELSE IF child.type = "chart" THEN _convert_chart_to_markdown(child)
    ELSE <<"[", "S", "h", "a", "p", "e", ":", " ">>
         \o Get(child, "shape_subtype", <<"u", "n", "k", "n", "o", "w", "n">>) \o <<"]">>

\* parts joined by blank lines
JoinedParts(parts) ==
    Join([i \in 1..Len(parts) |-> (IF i > 1 THEN <<"\n", "\n">> ELSE <<>>) \o parts[i]])

\* C18: a group block renders every text, image, table or chart child by
\* that kind's rule and every child of another kind, a group in the group
\* included, as a placeholder naming its subtype; only a child whose own
\* rendering is empty is left out, the children are joined by blank lines in
\* child order, and the result is a link when the group has a hyperlink.
C18_GroupChildren ==
    (markdown.op = "block_markdown" /\ RenderedBlock.type = "group") =>
        markdown.value =
            Hyperlinked(JoinedParts(SelectSeq([c \in 1..Len(Get(RenderedBlock, "extracted_blocks",
                                                                <<>>)) |->
                                                  ChildRendering(RenderedBlock.extracted_blocks[c])],
                                              LAMBDA part : part # <<>>)),
                        Get(RenderedBlock, "hyperlink", None))

-----------------------------------------------------------------------------
(* The bullet level and the list hints of the paragraph records.           *)

\* the markup of the paragraph has a bullet element
MarkupBullet(para) == para.markup = "ok" /\ para.bullet \in {"buChar", "buAutoNum", "buFont"}

\* the level the rule gives a paragraph: with a bullet element the level
\* attribute, else the indent level if the paragraph has one, else 0; without
\* one the indent level if the paragraph has one, else -1
ResolvedLevel(para) ==
    IF MarkupBullet(para)
    THEN (IF para.lvl # None THEN para.lvl.value
          ELSE IF ParaLevel(para) # None THEN ParaLevel(para).value
          ELSE 0)
    ELSE IF ParaLevel(para) # None THEN ParaLevel(para).value
    ELSE -1

\* the hints of a record say: a bullet exactly from level 0 on
BulletFromLevel(record) ==
    record.hints # <<>> => (record.hints.is_bullet <=> record.hints.bullet_level >= 0)

\* C19: process_paragraph resolves bullet_level from the markup bullet, the
\* level attribute and the indent level of the paragraph; in every record,
\* of process_paragraph and of the plain-text extraction, is_bullet holds
\* exactly when bullet_level >= 0, and is_numbered exactly when the markup
\* has an auto-number indicator.
C19_BulletLevelResolved ==
    /\ (extracted.op = "process_paragraph" /\ extracted.value # None) =>
           /\ extracted.value.hints.bullet_level = ResolvedLevel(ProcessedParagraph)
           /\ BulletFromLevel(extracted.value)
           /\ extracted.value.hints.is_numbered <=>
                  (ProcessedParagraph.markup = "ok" /\ ProcessedParagraph.bullet = "buAutoNum")
    /\ (extracted.op = "extract_text_frame" /\ extracted.value # None) =>
           \A p \in 1..Len(extracted.value.paragraphs) :
               BulletFromLevel(extracted.value.paragraphs[p])
    /\ (extracted.op = "extract_plain_text" /\ extracted.value # None) =>
           /\ BulletFromLevel(extracted.value.paragraphs[1])
           /\ extracted.value.paragraphs[1].hints # <<>> =>
                  ~extracted.value.paragraphs[1].hints.is_numbered

-----------------------------------------------------------------------------
(* The roles of the simple strategy.                                       *)

\* C20: in the simple strategy every returned shape has the role the
\* per-shape classifier computes for that shape alone, whatever was called
\* on the extractor before; a simple resolution after a semantic one and
\* configure_extraction_method(False) returns no role the semantic pass left
\* in the classification cache.
C20_SimpleRolesPerShape ==
    (call.status = "returned" /\ ~call.semantic) =>
        \A i \in DOMAIN OutShapes : OutRoles[i] = _get_semantic_role_from_xml(OutShapes[i])

-----------------------------------------------------------------------------
(* Groups in the reading order.                                            *)

\* the shapes that are no group, in pre-order: the first shape of the list is
\* taken, or gives way to its children at the front of the list
RECURSIVE PreOrderLeaves(_)
PreOrderLeaves(shapes) ==
    IF shapes = <<>> THEN <<>>
    ELSE IF Shape[Head(shapes)].shape_type = "GROUP"
    THEN PreOrderLeaves(Shape[Head(shapes)].shapes \o Tail(shapes))
    ELSE <<Head(shapes)>> \o PreOrderLeaves(Tail(shapes))

\* C21: in both strategies no returned shape is a group; every group, at any
\* depth, gives way to its children in pre-order, and the output of the
\* simple strategy is the pre-order sequence of the shapes of the slide that
\* are no group.
C21_GroupsFlattened ==
    call.status = "returned" =>
        /\ \A i \in DOMAIN OutShapes : Shape[OutShapes[i]].shape_type # "GROUP"
        /\ ~call.semantic => OutShapes = PreOrderLeaves(deck[call.slide].shapes)
        /\ call.semantic =>
               \A i \in DOMAIN OutShapes :
                   \E j \in DOMAIN PreOrderLeaves(deck[call.slide].shapes) :
                       PreOrderLeaves(deck[call.slide].shapes)[j] = OutShapes[i]

C21_Witness ==
    /\ call.status = "returned"
    /\ ~call.semantic
    /\ deck[call.slide].shapes = <<1, 8>>
    /\ OutShapes = <<1, 9, 4, 9>>

-----------------------------------------------------------------------------
(* The classification cache across calls.                                  *)

\* C22: the classification cache does not accumulate: after a semantic call
\* it holds the flattened, deduplicated shapes of the slide just resolved
\* and no other shape, and what the call returns is what a new extractor
\* returns for the slide.
C22_CacheOfLastSlide ==
    SemanticReturned =>
        /\ DOMAIN shape_classifications =
               {Flattened(deck[call.slide])[i] : i \in DOMAIN Flattened(deck[call.slide])}
        /\ call.value =
               get_slide_reading_order(TRUE, "not_extracted", <<>>, deck[call.slide]).value

C22_Witness ==
    /\ SemanticReturned
    /\ call.slide = 2
    /\ deck[1].shapes = <<1, 8>>
    /\ deck[1].markup = "ok"
    /\ DOMAIN shape_classifications = {2, 6}
    /\ call.value = <<<<2, "content">>, <<6, "content">>>>

-----------------------------------------------------------------------------
(* Slide number shapes in the two strategies.                              *)

\* the shapes the last call returned
Returned_shapes == {OutShapes[i] : i \in DOMAIN OutShapes}

\* the semantic strategy on a slide whose markup is read without fault:
\* every returned role is title, content or other, every returned shape has
\* a cache entry, and a slide number shape is in the cache as slide_number
\* but is not returned
SemanticDropsSlideNumber ==
    (SemanticReturned /\ deck[call.slide].markup = "ok") =>
        /\ \A i \in DOMAIN OutRoles : OutRoles[i] \in {"title", "content", "other"}
        /\ Returned_shapes \subseteq DOMAIN shape_classifications
        /\ \A i \in DOMAIN Flattened(deck[call.slide]) :
               SlideNumberNamed(Flattened(deck[call.slide])[i]) =>
                   /\ shape_classifications[Flattened(deck[call.slide])[i]] = "slide_number"
                   /\ Flattened(deck[call.slide])[i] \notin Returned_shapes

\* C25: in the semantic strategy (markup read without fault) every returned
\* role is one of title, content, other, every returned shape has a cache
\* entry, and a shape whose name contains "slide number" (and is not
\* title-named) is slide_number in the cache but absent from the returned
\* list, whereas the simple strategy returns that same shape with role
\* slide_number.
C25_SlideNumberRoles ==
    /\ SemanticDropsSlideNumber
    /\ (call.status = "returned" /\ ~call.semantic) =>
           \A i \in DOMAIN PreOrderLeaves(deck[call.slide].shapes) :
               SlideNumberNamed(PreOrderLeaves(deck[call.slide].shapes)[i]) =>
                   /\ i \in DOMAIN call.value
                   /\ call.value[i] = <<PreOrderLeaves(deck[call.slide].shapes)[i], "slide_number">>

\* C25, for the names the simple strategy does not take for a subtitle: the
\* same, where the simple strategy returns with role slide_number a shape
\* whose name contains "slide number" and neither "title" nor "subtitle" (a
\* subtitle-named one it returns as subtitle).
C25_SlideNumberRolesUnlessSubtitle ==
    /\ SemanticDropsSlideNumber
    /\ (call.status = "returned" /\ ~call.semantic) =>
           \A i \in DOMAIN PreOrderLeaves(deck[call.slide].shapes) :
               SlideNumberNamed(PreOrderLeaves(deck[call.slide].shapes)[i]) =>
                   /\ i \in DOMAIN call.value
                   /\ call.value[i] =
                          <<PreOrderLeaves(deck[call.slide].shapes)[i],
                            IF SubtitleNamed(PreOrderLeaves(deck[call.slide].shapes)[i])
                            THEN IF PreOrderLeaves(deck[call.slide].shapes)[i]
                                        \in DOMAIN shape_classifications
                                 THEN "slide_number" ELSE "subtitle"
                            ELSE "slide_number">>

C25_Witness ==
    /\ SemanticReturned
    /\ call.slide = 1
    /\ deck[1] = [shapes |-> <<3, 4>>, markup |-> "ok"]
    /\ shape_classifications = (3 :> "slide_number") @@ (4 :> "content")
    /\ call.value = <<<<4, "content">>>>

-----------------------------------------------------------------------------
(* The runs of a record against its clean_text.                            *)

\* the texts of the formatted runs of a record
RunTexts(record) == [i \in 1..Len(record.formatted_runs) |-> record.formatted_runs[i].text]

\* o is the first position of full_text from which the rest, trimmed, is clean_text
FirstOffset(full_text, clean_text, o) ==
    /\ Strip(SubSeq(full_text, o + 1, Len(full_text))) = clean_text
    /\ \A j \in 0..(o - 1) : Strip(SubSeq(full_text, j + 1, Len(full_text))) # clean_text

\* what is left of the run texts from position o of their concatenation on:
\* a run that ends at or before o leaves nothing, the run across o its rest,
\* a later run all of it
PiecesFrom(runs, o) ==
    SelectSeq([k \in 1..Len(runs) |->
                  SubSeq(runs[k].text,
                         (IF o > RunStart(runs, k) THEN o - RunStart(runs, k) ELSE 0) + 1,
                         Len(runs[k].text))],
              LAMBDA piece : piece # <<>>)

\* C23: for a bulleted paragraph whose text is the concatenation of its
\* runs, the runs of the record are what is left of the runs from the first
\* offset at which the rest of the text, trimmed, is clean_text, so that
\* their concatenation, trimmed, is clean_text; for a paragraph that is no
\* bullet every run with text is kept unchanged and in order.
C23_RunAlignment ==
    (/\ extracted.op = "process_paragraph"
     /\ extracted.value # None
     /\ ProcessedParagraph.runs # <<>>
     /\ ProcessedParagraph.field = <<>>) =>
        IF extracted.value.hints.is_bullet
        THEN /\ \E o \in 0..(Len(ParaText(ProcessedParagraph)) - 1) :
                    /\ FirstOffset(ParaText(ProcessedParagraph), extracted.value.clean_text, o)
                    /\ RunTexts(extracted.value) = PiecesFrom(ProcessedParagraph.runs, o)
             /\ Strip(Join(RunTexts(extracted.value))) = extracted.value.clean_text
        ELSE RunTexts(extracted.value) = PiecesFrom(ProcessedParagraph.runs, 0)

-----------------------------------------------------------------------------
(* The text processor and the converter in a row: the block extracted from *)
(* a shape is rendered.                                                    *)

InitPipeline ==
    /\ text_frame \in TextFrames
    /\ extracted = [op |-> "none"]
    /\ data = Idle
    /\ markdown = [op |-> "none"]
    /\ accessibility_order = TRUE
    /\ last_extraction_method = "not_extracted"
    /\ shape_classifications = <<>>
    /\ deck = <<>>
    /\ call = NoCall
    /\ hash_order = <<>>
    /\ document = Idle
    /\ conversion = Idle
    /\ previous = Idle
    /\ processor = Idle

\* MarkdownConverter._convert_text_block_to_markdown on the block the
\* TextProcessor returned last
RenderExtracted ==
    /\ extracted.op \in {"extract_text_frame", "extract_plain_text"}
    /\ extracted.value # None
    /\ data' = [slides |-> <<[slide_number |-> 1, content_blocks |-> <<extracted.value>>]>>]
    /\ markdown' = [op |-> "_convert_text_block_to_markdown", slide |-> 1, block |-> 1,
                    of |-> extracted.op,
                    value |-> _convert_text_block_to_markdown(extracted.value)]
    /\ UNCHANGED <<text_frame, extracted, orderVars, convertVars>>

NextPipeline ==
    \/ ExtractTextFrame
    \/ ExtractPlainText
    \/ RenderExtracted

SpecPipeline == InitPipeline /\ [][NextPipeline]_vars

\* the line of a paragraph whose formatted text is its clean_text
CleanLine(para) == RuleLine([para EXCEPT !.formatted_runs = <<>>])

\* the paragraphs of a block that have a clean_text
WithCleanText(paragraphs) == SelectSeq(paragraphs, LAMBDA para : para.clean_text # <<>>)

\* C24: end to end, a paragraph of runs without bold, italic and hyperlink
\* is rendered with its clean_text as text: a bulleted paragraph "<glyph> X"
\* of one run at level L as 2*L spaces + "- X", nothing more between the
\* marker and X, and a plain-text record with its trimmed text.
C24_RenderedCleanText ==
    markdown.op = "_convert_text_block_to_markdown" =>
        markdown.value =
            Hyperlinked(JoinedLines([p \in 1..Len(WithCleanText(RenderedBlock.paragraphs)) |->
                                        CleanLine(WithCleanText(RenderedBlock.paragraphs)[p])]),
                        RenderedBlock.shape_hyperlink)

-----------------------------------------------------------------------------
(* Auto-numbered paragraphs, end to end.                                   *)

\* the paragraph record with its numbered hint taken away
Unnumbered(para) == [para EXCEPT !.hints.is_numbered = FALSE]

\* the lines of the paragraphs of a block that are not empty
Lines(paragraphs) ==
    SelectSeq([p \in 1..Len(paragraphs) |-> _convert_paragraph_to_markdown(paragraphs[p])],
              LAMBDA line : line # <<>>)

\* C26: in every record process_paragraph returns (markup readable at both
\* probes) is_numbered implies is_bullet; hence a text block built by
\* extract_text_frame and rendered with a role that is neither title nor
\* subtitle never takes the numbered rule ("1. "): it is rendered as it is
\* without its numbered hints, and an auto-numbered paragraph is rendered
\* with the bullet marker "- " after the indent of its level.
C26_NumberedRenderedAsBullet ==
    /\ (extracted.op = "extract_text_frame" /\ extracted.value # None) =>
           \A p \in 1..Len(extracted.value.paragraphs) :
               extracted.value.paragraphs[p].hints.is_numbered =>
                   /\ extracted.value.paragraphs[p].hints.is_bullet
                   /\ extracted.value.paragraphs[p].hints.bullet_level >= 0
    /\ (/\ markdown.op = "_convert_text_block_to_markdown"
        /\ markdown.of = "extract_text_frame"
        /\ Get(RenderedBlock, "semantic_role", "other") \notin {"title", "subtitle"}) =>
           /\ markdown.value =
                  Hyperlinked(JoinedLines(Lines([p \in 1..Len(RenderedBlock.paragraphs) |->
                                                    Unnumbered(RenderedBlock.paragraphs[p])])),
                              RenderedBlock.shape_hyperlink)
           /\ \A p \in 1..Len(RenderedBlock.paragraphs) :
                  RenderedBlock.paragraphs[p].hints.is_numbered =>
                      _convert_paragraph_to_markdown(RenderedBlock.paragraphs[p]) =
                          Indent(RenderedBlock.paragraphs[p].hints.bullet_level)
                          \o HeadingLine(<<"-", " ">>, RenderedBlock.paragraphs[p])

=============================================================================
